---- MODULE Spec2Model ----
(***************************************************************************)
(* json_parser: a character-level lexer (Lexer), a schema builder          *)
(* (Tokenizer) and a template-driven renderer (Transformer), run one after *)
(* the other by lib::run.                                                  *)
(*                                                                         *)
(* Texts are sequences of one-character strings.  Option<T> is a sequence  *)
(* of length 0 (None) or 1 (Some).  Rust enums with payloads are records   *)
(* with a "kind" field.                                                    *)
(***************************************************************************)
EXTENDS Integers, Sequences, FiniteSets, TLC

VARIABLES
    doc,          \* the JSON value the input text writes down (kept to state the claims)
    style,        \* how doc was written: its whitespace layout, or handed over as tokens
    phase,        \* position of lib::run: "lex", "tokenize", "new", "transform", "print", "done"
    lexer,        \* struct Lexer
    step,         \* the variable `step` of Lexer::start_lex
    tokens,       \* the Vec<Token> handed to Tokenizer::new
    tokenizer,    \* result of Tokenizer::start_tokenizer, with the iterator position
    config,       \* the TransformConfig of the run
    transformer,  \* result of Transformer::new
    output,       \* result of Transformer::start_transform
    printed       \* lines written by lib::run

vars == <<doc, style, phase, lexer, step, tokens, tokenizer, config, transformer, output, printed>>

-----------------------------------------------------------------------------
(* Option and small helpers *)

None == <<>>
Some(x) == <<x>>
Min(a, b) == IF a < b THEN a ELSE b
Last(s) == s[Len(s)]

RECURSIVE Flatten(_)
Flatten(ss) == IF ss = <<>> THEN <<>> ELSE Head(ss) \o Flatten(Tail(ss))

Digits == {"0", "1", "2", "3", "4", "5", "6", "7", "8", "9"}

-----------------------------------------------------------------------------
(* model::token *)

ObjectStart == [kind |-> "ObjectStart"]
ObjectEnd == [kind |-> "ObjectEnd"]
ArrayStart == [kind |-> "ArrayStart"]
ArrayEnd == [kind |-> "ArrayEnd"]
Colon == [kind |-> "Colon"]
Comma == [kind |-> "Comma"]
Name(text) == [kind |-> "Name", name |-> text]
Value(json_type) == [kind |-> "Value", json_type |-> json_type]
Token(value, line, col) == [value |-> value, line |-> line, col |-> col]

-----------------------------------------------------------------------------
(* str::lines: split at "\n"; a final line end opens no further line *)

RECURSIVE LinesFrom(_, _, _)
LinesFrom(json, i, cur) ==
    IF i > Len(json) THEN (IF cur = <<>> THEN <<>> ELSE <<cur>>)
    ELSE IF json[i] = "\n" THEN <<cur>> \o LinesFrom(json, i + 1, <<>>)
    ELSE LinesFrom(json, i + 1, Append(cur, json[i]))

Lines(json) == LinesFrom(json, 1, <<>>)

(* UTF-8: every character of the texts used here is one byte long except    *)
(* the degree-like sign of tests::lex_bad_name_after_degree_symbol.         *)
NonAscii == {"º"}
ByteLen(c) == IF c \in NonAscii THEN 2 ELSE 1

(* the bytes of a line: <<c, k>> is the k-th byte of character c *)
RECURSIVE Bytes(_)
Bytes(line) ==
    IF line = <<>> THEN <<>>
    ELSE (IF Head(line) \in NonAscii THEN << <<Head(line), 1>>, <<Head(line), 2>> >>
          ELSE << <<Head(line), 1>> >>) \o Bytes(Tail(line))

(* is byte offset o (0-based) a character boundary of bytes b *)
IsCharBoundary(b, o) == o = Len(b) \/ (o < Len(b) /\ b[o + 1][2] = 1)

(* &s[a..=bb] on bytes: the slice is legal iff both ends are boundaries *)
SliceOk(b, a, bb) == a <= bb + 1 /\ bb + 1 <= Len(b) /\ IsCharBoundary(b, a) /\ IsCharBoundary(b, bb + 1)

RECURSIVE CharsOf(_)
CharsOf(b) ==
    IF b = <<>> THEN <<>>
    ELSE IF Head(b)[2] = 1 THEN <<Head(b)[1]>> \o CharsOf(Tail(b)) ELSE CharsOf(Tail(b))

Slice(b, a, bb) == CharsOf(SubSeq(b, a + 1, bb + 1))

-----------------------------------------------------------------------------
(* Lexer *)

(* Lexer::new *)
LexerNew(json) ==
    [json |-> json, lines |-> 0, current_line |-> 0, current_line_str |-> None,
     char_iter |-> None, tokens |-> <<>>, panicked |-> FALSE]

(* self.tokens.push(Token {..}) *)
Push(self, value, col) ==
    [self EXCEPT !.tokens = Append(@, Token(value, self.current_line, col))]

(* quote_mode taking a quote after ArrayStart for a string value too *)
quote_mode_after_bracket(self) ==
    IF self.tokens # <<>> /\ Last(self.tokens).value \in {Comma, ObjectStart} THEN "LexName"
    ELSE IF self.tokens # <<>> /\ Last(self.tokens).value \in {Colon, ArrayStart} THEN "LexString"
    ELSE ""

(* lex_character, the '"' arm: the step to return, "" to go on scanning *)
quote_mode(self) ==
    IF self.tokens # <<>> /\ Last(self.tokens).value \in {Comma, ObjectStart} THEN "LexName"
    ELSE IF self.tokens # <<>> /\ Last(self.tokens).value = Colon THEN "LexString"
    ELSE ""

(* lex_character, the `while let` loop: pos is the number of characters     *)
(* char_iter has yielded so far; ret is "" when the line is exhausted.      *)
RECURSIVE lex_character_loop(_, _)
lex_character_loop(self, pos) ==
    LET line == self.current_line_str[1] IN
    IF pos >= Len(line) THEN [self |-> [self EXCEPT !.char_iter = Some(pos)], ret |-> ""]
    ELSE
        LET char == line[pos + 1]
            i == pos
            after == [self EXCEPT !.char_iter = Some(pos + 1)]
        IN
        CASE char = "{" -> lex_character_loop(Push(self, ObjectStart, i), pos + 1)
          [] char = "}" -> lex_character_loop(Push(self, ObjectEnd, i), pos + 1)
          [] char = "[" -> lex_character_loop(Push(self, ArrayStart, i), pos + 1)
          [] char = "]" -> lex_character_loop(Push(self, ArrayEnd, i), pos + 1)
          [] char = ":" -> lex_character_loop(Push(self, Colon, i), pos + 1)
          [] char = "," -> lex_character_loop(Push(self, Comma, i), pos + 1)
          [] char \in Digits -> [self |-> after, ret |-> "LexNumberType"]
          [] char \in {"t", "f"} -> [self |-> after, ret |-> "LexBoolean"]
          [] char = "\"" ->
                IF quote_mode(self) # "" THEN [self |-> after, ret |-> quote_mode(self)]
                ELSE lex_character_loop(self, pos + 1)
          [] OTHER -> lex_character_loop(self, pos + 1)

(* lex_character *)
lex_character(self) ==
    LET scanned == IF self.char_iter # None
                   THEN lex_character_loop(self, self.char_iter[1])
                   ELSE [self |-> self, ret |-> ""]
        s == scanned.self
        all == Lines(s.json)
    IN
    IF scanned.ret # "" THEN scanned
    ELSE IF s.lines < Len(all)
    THEN [self |-> [s EXCEPT !.current_line_str = Some(all[s.lines + 1]),
                             !.char_iter = Some(0),
                             !.current_line = s.lines,
                             !.lines = s.lines + 1],
          ret |-> "LexCharacter"]
    ELSE [self |-> s, ret |-> "Done"]

(* lex: f maps the peeked character to Advance, Skip or Done.  `seen` is    *)
(* the sequence of characters f was called on (what a closure can record).  *)
RECURSIVE lex_loop(_, _, _, _, _)
lex_loop(line, pos, f, token_start, seen) ==
    IF pos >= Len(line) THEN [pos |-> pos, token_start |-> token_start, seen |-> seen]
    ELSE
        LET next_char == line[pos + 1]
            ts == IF token_start = None THEN Some(pos) ELSE token_start
            sn == Append(seen, next_char)
        IN
        CASE f[next_char] = "Advance" -> lex_loop(line, pos + 1, f, ts, sn)
          [] f[next_char] = "Skip" -> lex_loop(line, Min(pos + 2, Len(line)), f, ts, sn)
          [] OTHER -> [pos |-> pos, token_start |-> ts, seen |-> sn]

lex(self, f) ==
    IF self.char_iter # None
    THEN lex_loop(self.current_line_str[1], self.char_iter[1], f, None, <<>>)
    ELSE [pos |-> 0, token_start |-> None, seen |-> <<>>]

SetIter(self, l) == IF self.char_iter # None THEN [self EXCEPT !.char_iter = Some(l.pos)] ELSE self

(* lex_boolean *)
lex_boolean(self) ==
    LET l == lex(self, [next_char \in STRING |->
                            IF next_char \in {",", "}"} THEN "Done" ELSE "Advance"])
        s == SetIter(self, l)
    IN IF l.token_start # None THEN Push(s, Value("Bool"), l.token_start[1]) ELSE s

(* lex_string *)
lex_string(self) ==
    LET l == lex(self, [next_char \in STRING |->
                            IF next_char = "\\" THEN "Skip"
                            ELSE IF next_char = "\"" THEN "Done" ELSE "Advance"])
        s == SetIter(self, l)
    IN IF l.token_start # None THEN Push(s, Value("String"), l.token_start[1]) ELSE s

(* lex_number: is_float is set when the closure is called on a "." *)
lex_number(self) ==
    LET l == lex(self, [next_char \in STRING |->
                            IF next_char \in Digits \cup {"."} THEN "Advance" ELSE "Done"])
        s == SetIter(self, l)
        is_float == \E k \in 1..Len(l.seen) : l.seen[k] = "."
    IN IF l.token_start # None
       THEN Push(s, Value(IF is_float THEN "Float" ELSE "Int"), l.token_start[1])
       ELSE s

(* lex_name, the `while let` loop over char_iter.next() with a peek *)
RECURSIVE lex_name_loop(_, _, _, _)
lex_name_loop(line, pos, start_char, start_index) ==
    IF pos >= Len(line)
    THEN [pos |-> pos, start_char |-> start_char, start_index |-> start_index,
          end_char |-> None, end_index |-> 0]
    ELSE
        LET char == line[pos + 1]
            i == pos
        IN
        IF pos + 1 < Len(line)
        THEN LET next_char == line[pos + 2]
                 sc == IF start_char = None THEN Some(char) ELSE start_char
                 si == IF start_char = None THEN i ELSE start_index
             IN IF next_char = "\""
                THEN [pos |-> pos + 1, start_char |-> sc, start_index |-> si,
                      end_char |-> Some(char), end_index |-> i]
                ELSE lex_name_loop(line, pos + 1, sc, si)
        ELSE lex_name_loop(line, pos + 1, start_char, start_index)

(* `while current_line_str[index..=index] != ch.to_string() { index += 1 }` *)
(* on the bytes b of the line; -1 when the one-byte slice panics.           *)
RECURSIVE byte_scan(_, _, _)
byte_scan(b, index, ch) ==
    IF ~SliceOk(b, index, index) THEN -1
    ELSE IF Slice(b, index, index) = <<ch>> THEN index
    ELSE byte_scan(b, index + 1, ch)

(* lex_name *)
lex_name(self) ==
    IF self.char_iter = None THEN self
    ELSE
        LET line == self.current_line_str[1]
            l == lex_name_loop(line, self.char_iter[1], None, 0)
            s == [self EXCEPT !.char_iter = Some(l.pos)]
            b == Bytes(line)
        IN
        IF l.start_char = None \/ l.end_char = None THEN s
        ELSE
            LET start_index == byte_scan(b, l.start_index, l.start_char[1])
                end_index == IF start_index = -1 THEN -1
                             ELSE byte_scan(b, l.end_index, l.end_char[1])
            IN
            IF start_index = -1 \/ end_index = -1 \/ ~SliceOk(b, start_index, end_index)
            THEN [s EXCEPT !.panicked = TRUE]
            ELSE Push(s, Name(Slice(b, start_index, end_index)), start_index)

-----------------------------------------------------------------------------
(* Lexer::start_lex, one action per turn of its loop *)

LexCharacter ==
    /\ phase = "lex" /\ step = "LexCharacter"
    /\ LET r == lex_character(lexer) IN lexer' = r.self /\ step' = r.ret
    /\ UNCHANGED <<doc, style, phase, tokens, tokenizer, config, transformer, output, printed>>

LexPrimitive(s, after) ==
    /\ phase = "lex" /\ step = s
    /\ lexer' = after
    /\ step' = "LexCharacter"
    /\ phase' = IF after.panicked THEN "panic" ELSE phase
    /\ UNCHANGED <<doc, style, tokens, tokenizer, config, transformer, output, printed>>

LexNumberType == LexPrimitive("LexNumberType", lex_number(lexer))
LexName == LexPrimitive("LexName", lex_name(lexer))
LexString == LexPrimitive("LexString", lex_string(lexer))
LexBoolean == LexPrimitive("LexBoolean", lex_boolean(lexer))

(* start_lex returns self.tokens; lib::run hands them to Tokenizer::new *)
LexDone ==
    /\ phase = "lex" /\ step = "Done"
    /\ tokens' = lexer.tokens
    /\ phase' = "tokenize"
    /\ UNCHANGED <<doc, style, lexer, step, tokenizer, config, transformer, output, printed>>

-----------------------------------------------------------------------------
(* model::tree *)

(* JsonTree::Int(name), Float, String, Bool *)
Leaf(kind, name) == [kind |-> kind, name |-> name]
JsonObject(name, children) == [kind |-> "JsonObject", name |-> name, children |-> children]
JsonArray(name, array_type) == [kind |-> "JsonArray", name |-> name, array_type |-> array_type]

(* JsonArrayType *)
ScalarType(kind) == [kind |-> kind]
ObjectType(children) == [kind |-> "JsonObject", children |-> children]
ArrayType(inner) == [kind |-> "JsonArray", inner |-> inner]

-----------------------------------------------------------------------------
(* Tokenizer.  A Result is [ok, val, pos] or [ok, err, pos]; pos is the     *)
(* number of tokens token_iter has yielded when the call returns.           *)

SyntaxError(line, col) == [kind |-> "SyntaxError", line |-> line, col |-> col]
UnknownSyntaxError == [kind |-> "UnknownSyntaxError"]
NullNotSupportedError(line, col) == [kind |-> "NullNotSupportedError", line |-> line, col |-> col]
EmptyArrayNotSupportedError(line, col) == [kind |-> "EmptyArrayNotSupportedError", line |-> line, col |-> col]

Ok(val, pos) == [ok |-> TRUE, val |-> val, pos |-> pos]
Err(err, pos) == [ok |-> FALSE, err |-> err, pos |-> pos]

(* Vec::contains *)
Contains(vec, x) == \E k \in 1..Len(vec) : vec[k] = x

(* new_tree.into_iter().for_each(|json_type| if !old_tree.contains(..) { push }) *)
RECURSIVE join_fields(_, _)
join_fields(old_tree, new_tree) ==
    IF new_tree = <<>> THEN old_tree
    ELSE join_fields(IF ~Contains(old_tree, Head(new_tree))
                     THEN Append(old_tree, Head(new_tree)) ELSE old_tree,
                     Tail(new_tree))

(* parse_new_array_type comparing the variants only, not what they hold *)
parse_new_array_type_shallow(old_type, new_type, line, col) ==
    IF old_type # None THEN
        IF old_type[1].kind = new_type.kind /\ new_type.kind # "JsonObject"
        THEN [ok |-> TRUE, val |-> new_type]
        ELSE IF old_type[1] = new_type THEN [ok |-> TRUE, val |-> new_type]
        ELSE IF old_type[1].kind = "JsonObject" THEN
            IF new_type.kind = "JsonObject"
            THEN [ok |-> TRUE, val |-> ObjectType(join_fields(old_type[1].children, new_type.children))]
            ELSE [ok |-> FALSE, err |-> SyntaxError(line, col)]
        ELSE [ok |-> FALSE, err |-> SyntaxError(line, col)]
    ELSE [ok |-> TRUE, val |-> new_type]

(* parse_new_array_type; old_type is an Option, the result has no pos *)
parse_new_array_type(old_type, new_type, line, col) ==
    IF old_type # None THEN
        IF old_type[1] = new_type THEN [ok |-> TRUE, val |-> new_type]
        ELSE IF old_type[1].kind = "JsonObject" THEN
            IF new_type.kind = "JsonObject"
            THEN [ok |-> TRUE, val |-> ObjectType(join_fields(old_type[1].children, new_type.children))]
            ELSE [ok |-> FALSE, err |-> SyntaxError(line, col)]
        ELSE [ok |-> FALSE, err |-> SyntaxError(line, col)]
    ELSE [ok |-> TRUE, val |-> new_type]

(* array_end reporting the column where the line belongs and the reverse *)
array_end_swapped(array_type, name, token) ==
    IF array_type # None THEN [ok |-> TRUE, val |-> JsonArray(name, array_type[1])]
    ELSE [ok |-> FALSE, err |-> EmptyArrayNotSupportedError(token.col, token.line)]

(* parse_array_token, the JsonToken::ArrayEnd arm; the result has no pos *)
array_end(array_type, name, token) ==
    IF array_type # None THEN [ok |-> TRUE, val |-> JsonArray(name, array_type[1])]
    ELSE [ok |-> FALSE, err |-> EmptyArrayNotSupportedError(token.line, token.col)]

(* push_object adding the nested fields to the enclosing object itself *)
push_object_flat(object, name, deeper_object) == object \o deeper_object

(* parse_object_token: object.push(JsonTree::JsonObject(name, deeper_object)) *)
push_object(object, name, deeper_object) == Append(object, JsonObject(name, deeper_object))

(* colon letting a Colon pass whether a field name is pending or not *)
colon_unchecked(name, token) == None

(* parse_object_token, the JsonToken::Colon arm: the error to return, if any *)
colon(name, token) ==
    IF name = None THEN Some(SyntaxError(token.line, token.col)) ELSE None

(* value_element taking the new scalar as the array's type whatever the    *)
(* elements before it were                                                  *)
value_element_replacing(array_type, token) ==
    IF token.value.json_type = "Null"
    THEN [ok |-> FALSE, err |-> NullNotSupportedError(token.line, token.col)]
    ELSE parse_new_array_type(None, ScalarType(token.value.json_type), token.line, token.col)

(* parse_array_token, the JsonToken::Value arm: the new array_type or the  *)
(* error; the result has no pos                                             *)
value_element(array_type, token) ==
    IF token.value.json_type = "Null"
    THEN [ok |-> FALSE, err |-> NullNotSupportedError(token.line, token.col)]
    ELSE parse_new_array_type(array_type, ScalarType(token.value.json_type), token.line, token.col)

(* array_stream_end refusing every array the stream ends in *)
array_stream_end_strict(array_type, name, pos) == Err(UnknownSyntaxError, pos)

(* after the loop of parse_array_token, the tokens used up: the array of    *)
(* what was unified, or the error when nothing was                          *)
array_stream_end(array_type, name, pos) ==
    IF array_type # None THEN Ok(JsonArray(name, array_type[1]), pos)
    ELSE Err(UnknownSyntaxError, pos)

(* array_element taking the newest inner array's type whatever came before *)
array_element_newest(array_type, deeper_array_type, token) ==
    parse_new_array_type(None, ArrayType(deeper_array_type), token.line, token.col)

(* an element that is an array: its type boxed as JsonArrayType::JsonArray  *)
(* and unified with the type so far, at the position of its ArrayStart      *)
array_element(array_type, deeper_array_type, token) ==
    parse_new_array_type(array_type, ArrayType(deeper_array_type), token.line, token.col)

RECURSIVE parse_array_loop(_, _, _, _)
RECURSIVE parse_object_loop(_, _, _, _, _)

(* ArrayFold dropping the error and going on with the array as if new *)
ArrayFold_recovering(toks, pos, name, unified) ==
    IF unified.ok THEN parse_array_loop(toks, pos, name, Some(unified.val))
    ELSE parse_array_loop(toks, pos, name, None)

(* the `?` after parse_new_array_type, then the next turn of the loop *)
ArrayFold(toks, pos, name, unified) ==
    IF unified.ok THEN parse_array_loop(toks, pos, name, Some(unified.val))
    ELSE Err(unified.err, pos)

(* object_end going on with the tokens after the brace *)
object_end_reading_on(toks, pos, object, name, actual_count) ==
    parse_object_loop(toks, pos, object, name, actual_count)

(* JsonToken::ObjectEnd => return Ok(object): the tokens after it are left  *)
(* to the caller                                                            *)
object_end(toks, pos, object, name, actual_count) == Ok(object, pos)

(* parse_array_token: the loop with its local array_type *)
parse_array_loop(toks, pos, name, array_type) ==
    IF pos >= Len(toks) THEN array_stream_end(array_type, name, pos)
    ELSE
        LET token == toks[pos + 1]
            p == pos + 1
        IN
        CASE token.value.kind = "ArrayEnd" ->
                LET r == array_end(array_type, name, token) IN
                IF r.ok THEN Ok(r.val, p) ELSE Err(r.err, p)
          [] token.value.kind = "ArrayStart" ->
                LET deeper_array == parse_array_loop(toks, p, <<>>, None) IN
                IF ~deeper_array.ok THEN deeper_array
                ELSE IF deeper_array.val.kind = "JsonArray"
                THEN ArrayFold(toks, deeper_array.pos, name,
                               array_element(array_type, deeper_array.val.array_type, token))
                ELSE Err(UnknownSyntaxError, deeper_array.pos)
          [] token.value.kind = "ObjectStart" ->
                LET object == parse_object_loop(toks, p, <<>>, None, 0) IN
                IF ~object.ok THEN object
                ELSE ArrayFold(toks, object.pos, name,
                               parse_new_array_type(array_type, ObjectType(object.val),
                                                    token.line, token.col))
          [] token.value.kind = "Value" ->
                ArrayFold(toks, p, name, value_element(array_type, token))
          [] token.value.kind = "Comma" -> parse_array_loop(toks, p, name, array_type)
          [] OTHER -> Err(SyntaxError(token.line, token.col), p)

(* parse_object_token: the loop with its locals object, name, actual_count *)
parse_object_loop(toks, pos, object, name, actual_count) ==
    IF pos >= Len(toks) THEN Ok(object, pos)
    ELSE
        LET token == toks[pos + 1]
            p == pos + 1
            n == actual_count + 1
        IN
        CASE token.value.kind = "ObjectStart" ->
                IF actual_count # 0 THEN
                    IF name # None THEN
                        LET deeper_object == parse_object_loop(toks, p, <<>>, None, 0) IN
                        IF ~deeper_object.ok THEN deeper_object
                        ELSE parse_object_loop(toks, deeper_object.pos,
                                               push_object(object, name[1], deeper_object.val),
                                               None, n)
                    ELSE Err(SyntaxError(token.line, token.col), p)
                ELSE parse_object_loop(toks, p, object, name, n)
          [] token.value.kind = "ObjectEnd" -> object_end(toks, p, object, name, n)
          [] token.value.kind = "ArrayStart" ->
                IF name # None THEN
                    LET array == parse_array_loop(toks, p, name[1], None) IN
                    IF ~array.ok THEN array
                    ELSE parse_object_loop(toks, array.pos, Append(object, array.val), None, n)
                ELSE Err(SyntaxError(token.line, token.col), p)
          [] token.value.kind = "ArrayEnd" -> parse_object_loop(toks, p, object, name, n)
          [] token.value.kind = "Colon" ->
                IF colon(name, token) # None THEN Err(colon(name, token)[1], p)
                ELSE parse_object_loop(toks, p, object, name, n)
          [] token.value.kind = "Comma" -> parse_object_loop(toks, p, object, name, n)
          [] token.value.kind = "Name" ->
                IF name # None THEN Err(SyntaxError(token.line, token.col), p)
                ELSE parse_object_loop(toks, p, object, Some(token.value.name), n)
          [] OTHER -> \* JsonToken::Value
                IF name # None THEN
                    IF token.value.json_type = "Null"
                    THEN Err(NullNotSupportedError(token.line, token.col), p)
                    ELSE parse_object_loop(toks, p, Append(object, Leaf(token.value.json_type, name[1])),
                                           None, n)
                ELSE Err(SyntaxError(token.line, token.col), p)

parse_array_token(toks, pos, name) == parse_array_loop(toks, pos, name, None)
parse_object_token(toks, pos) == parse_object_loop(toks, pos, <<>>, None, 0)

(* Tokenizer::new, then start_tokenizer *)
start_tokenizer(toks) == parse_object_token(toks, 0)

-----------------------------------------------------------------------------
(* case::convert_case, on the bytes of the text as the code indexes them.   *)
(* The result is [panic, val]: panic when a slice, insert or unwrap aborts. *)

LowerLetters == <<"a", "b", "c", "d", "e", "f", "g", "h", "i", "j", "k", "l", "m",
                  "n", "o", "p", "q", "r", "s", "t", "u", "v", "w", "x", "y", "z">>
UpperLetters == <<"A", "B", "C", "D", "E", "F", "G", "H", "I", "J", "K", "L", "M",
                  "N", "O", "P", "Q", "R", "S", "T", "U", "V", "W", "X", "Y", "Z">>
IsUpper(c) == \E k \in 1..26 : UpperLetters[k] = c
IsLower(c) == \E k \in 1..26 : LowerLetters[k] = c
ToUpper(c) == IF IsLower(c) THEN UpperLetters[CHOOSE k \in 1..26 : LowerLetters[k] = c] ELSE c
ToLower(c) == IF IsUpper(c) THEN LowerLetters[CHOOSE k \in 1..26 : UpperLetters[k] = c] ELSE c

Panicked == [panic |-> TRUE, val |-> <<>>]
Fine(val) == [panic |-> FALSE, val |-> val]

(* result[i..=i].make_ascii_uppercase() / make_ascii_lowercase() *)
make_ascii_uppercase(b, i) ==
    IF ~SliceOk(b, i, i) THEN Panicked ELSE Fine([b EXCEPT ![i + 1] = <<ToUpper(b[i + 1][1]), 1>>])
make_ascii_lowercase(b, i) ==
    IF ~SliceOk(b, i, i) THEN Panicked ELSE Fine([b EXCEPT ![i + 1] = <<ToLower(b[i + 1][1]), 1>>])

(* String::insert(i, '_') *)
insert(b, i) ==
    IF i > Len(b) \/ ~IsCharBoundary(b, i) THEN Panicked
    ELSE Fine(SubSeq(b, 1, i) \o << <<"_", 1>> >> \o SubSeq(b, i + 1, Len(b)))

(* result.replace('-', "_") *)
replace_dash(b) == [k \in 1..Len(b) |-> IF b[k][1] = "-" THEN <<"_", 1>> ELSE b[k]]

(* result[1..].find(char): the byte offsets o >= 1 that hold char *)
FindFrom1(b, char) == {o \in 1..(Len(b) - 1) : b[o + 1] = <<char, 1>>}

(* result.remove(index) *)
remove(b, index) == SubSeq(b, 1, index) \o SubSeq(b, index + 2, Len(b))

SetMin(S) == CHOOSE x \in S : \A y \in S : x <= y

(* the `for (i, char) in str.chars().enumerate()` loop; i is 0-based *)
RECURSIVE convert_case_loop(_, _, _, _)
convert_case_loop(str, i, result, case_type) ==
    IF i >= Len(str) THEN Fine(CharsOf(result))
    ELSE
        LET char == str[i + 1] IN
        IF IsUpper(char) THEN
            IF case_type = "SnakeCase" THEN
                IF i # 0 THEN
                    LET ins == insert(result, i) IN
                    IF ins.panic THEN Panicked
                    ELSE LET low == make_ascii_lowercase(ins.val, i + 1) IN
                         IF low.panic THEN Panicked
                         ELSE convert_case_loop(str, i + 1, low.val, case_type)
                ELSE LET low == make_ascii_lowercase(result, i) IN
                     IF low.panic THEN Panicked
                     ELSE convert_case_loop(str, i + 1, low.val, case_type)
            ELSE convert_case_loop(str, i + 1, result, case_type)
        ELSE IF char \in {"_", "-"} THEN
            IF case_type = "SnakeCase" THEN Fine(CharsOf(replace_dash(result)))
            ELSE IF i # 0 THEN
                IF ~IsCharBoundary(result, 1) \/ FindFrom1(result, char) = {} THEN Panicked
                ELSE LET index == SetMin(FindFrom1(result, char))
                         up == make_ascii_uppercase(remove(result, index), index)
                     IN IF up.panic THEN Panicked
                        ELSE convert_case_loop(str, i + 1, up.val, case_type)
            ELSE convert_case_loop(str, i + 1, result, case_type)
        ELSE convert_case_loop(str, i + 1, result, case_type)

convert_case(str, case_type) ==
    LET first == IF case_type = "UpperCamelCase"
                 THEN make_ascii_uppercase(Bytes(str), 0) ELSE Fine(Bytes(str))
    IN IF first.panic THEN Panicked ELSE convert_case_loop(str, 0, first.val, case_type)

-----------------------------------------------------------------------------
(* model::transform_config.  A template is a sequence of pieces: literal    *)
(* text without placeholders, and the placeholders themselves.  Names and   *)
(* rendered lines are sequences of pieces too (a name: its characters).     *)

(* str::contains(placeholder) *)
contains(template, placeholder) == \E k \in 1..Len(template) : template[k] = placeholder

(* str::replace(placeholder, with) *)
replace(template, placeholder, with) ==
    Flatten([k \in 1..Len(template) |->
                IF template[k] = placeholder THEN with ELSE <<template[k]>>])

RUST_DEFINITION ==
    [type_definition |-> <<"#[derive(Serialize, Deserialize, Debug)]\nstruct ", "{object_name}", " {">>,
     field_definition |-> <<"\t", "{field_name}", ": ", "{field_type}", ",">>,
     name_change_annotation |-> <<"\t#[serde(rename = \"", "{name}", "\")]">>,
     array_definition |-> <<"Vec<", "{field_type}", ">">>,
     block_end |-> <<"}">>,
     int_type |-> <<"i32">>, float_type |-> <<"f32">>, bool_type |-> <<"bool">>,
     string_type |-> <<"String">>,
     constructor |-> None,
     case_type |-> "SnakeCase", object_case_type |-> "UpperCamelCase"]

JAVA_DEFINITION ==
    [type_definition |-> <<"class ", "{object_name}", " {">>,
     field_definition |-> <<"\tprivate final ", "{field_type}", " ", "{field_name}", ";">>,
     name_change_annotation |-> <<"\t@SerializedName(value = \"", "{name}", "\")">>,
     array_definition |-> <<"{field_type}", "[]">>,
     block_end |-> <<"}">>,
     int_type |-> <<"int">>, float_type |-> <<"double">>, bool_type |-> <<"boolean">>,
     string_type |-> <<"String">>,
     case_type |-> "CamelCase", object_case_type |-> "UpperCamelCase",
     constructor |-> Some(
        [definition |-> <<"\tpublic ", "{object_name}", "(", "{arguments}", ") {">>,
         argument_definition |-> <<"{type}", " ", "{name}">>,
         separator |-> <<", ">>,
         separator_at_end |-> FALSE,
         field_definition |-> Some([field_definition |-> <<"\t\tthis.", "{name}", " = ", "{name}", ";">>,
                                    end |-> <<"\t}">>])])]

(* DART_DEFINITION with a constructor line that has no place for arguments *)
DART_DEFINITION_no_arguments ==
    [type_definition |-> <<"class ", "{object_name}", " {">>,
     field_definition |-> <<"\tfinal ", "{field_type}", "? ", "{field_name}", ";">>,
     name_change_annotation |-> <<"\t@JsonKey(name: '", "{name}", "')">>,
     array_definition |-> <<"List<", "{field_type}", ">">>,
     block_end |-> <<"}">>,
     int_type |-> <<"int">>, float_type |-> <<"double">>, bool_type |-> <<"bool">>,
     string_type |-> <<"String">>,
     case_type |-> "CamelCase", object_case_type |-> "UpperCamelCase",
     constructor |-> Some(
        [definition |-> <<"\t", "{object_name}", "({", "\n\t});">>,
         argument_definition |-> <<"\n\t\tthis.", "{name}">>,
         separator |-> <<"), ">>,
         separator_at_end |-> TRUE,
         field_definition |-> None])]

DART_DEFINITION ==
    [type_definition |-> <<"class ", "{object_name}", " {">>,
     field_definition |-> <<"\tfinal ", "{field_type}", "? ", "{field_name}", ";">>,
     name_change_annotation |-> <<"\t@JsonKey(name: '", "{name}", "')">>,
     array_definition |-> <<"List<", "{field_type}", ">">>,
     block_end |-> <<"}">>,
     int_type |-> <<"int">>, float_type |-> <<"double">>, bool_type |-> <<"bool">>,
     string_type |-> <<"String">>,
     case_type |-> "CamelCase", object_case_type |-> "UpperCamelCase",
     constructor |-> Some(
        [definition |-> <<"\t", "{object_name}", "({", "{arguments}", "\n\t});">>,
         argument_definition |-> <<"\n\t\tthis.", "{name}">>,
         separator |-> <<"), ">>,
         separator_at_end |-> TRUE,
         field_definition |-> None])]

KOTLIN_DEFINITION ==
    [type_definition |-> <<"data class ", "{object_name}", " (">>,
     field_definition |-> <<"\tval ", "{field_name}", ": ", "{field_type}", ",">>,
     name_change_annotation |-> <<"\t@JsonKey(name: '", "{name}", "')">>,
     array_definition |-> <<"{field_type}", "[]">>,
     block_end |-> <<");">>,
     int_type |-> <<"int">>, float_type |-> <<"double">>, bool_type |-> <<"bool">>,
     string_type |-> <<"String">>,
     case_type |-> "CamelCase", object_case_type |-> "UpperCamelCase",
     constructor |-> None]

-----------------------------------------------------------------------------
(* Transformer *)

TransformerError(kind, text) == [kind |-> kind, text |-> text]

(* the checks of the four templates, lines 68-86: the first error, if any *)
template_checks_no_array(cfg) ==
    LET field_str == cfg.field_definition
        field_rename_str == cfg.name_change_annotation
        type_str == cfg.type_definition
    IN
    IF ~contains(type_str, "{object_name}") THEN Some(TransformerError("BadTypeDefinition", type_str))
    ELSE IF ~contains(field_str, "{field_name}") THEN Some(TransformerError("BadFieldDefinitionName", field_str))
    ELSE IF ~contains(field_rename_str, "{name}") THEN Some(TransformerError("BadFieldRenameDefinition", type_str))
    ELSE IF ~contains(field_str, "{field_type}") THEN Some(TransformerError("BadFieldDefinitionType", field_str))
    ELSE None

template_checks(cfg) ==
    LET field_str == cfg.field_definition
        field_rename_str == cfg.name_change_annotation
        array_type_str == cfg.array_definition
        type_str == cfg.type_definition
    IN
    IF ~contains(type_str, "{object_name}") THEN Some(TransformerError("BadTypeDefinition", type_str))
    ELSE IF ~contains(field_str, "{field_name}") THEN Some(TransformerError("BadFieldDefinitionName", field_str))
    ELSE IF ~contains(field_rename_str, "{name}") THEN Some(TransformerError("BadFieldRenameDefinition", type_str))
    ELSE IF ~contains(field_str, "{field_type}") THEN Some(TransformerError("BadFieldDefinitionType", field_str))
    ELSE IF ~contains(array_type_str, "{field_type}") THEN Some(TransformerError("BadArrayTypeDefinition", array_type_str))
    ELSE None

(* the checks under `if let Some(ref constructor)`, without the one of the  *)
(* field-assignment sub-template                                            *)
constructor_checks_no_field(cfg) ==
    IF cfg.constructor = None THEN None
    ELSE
        LET constructor_str == cfg.constructor[1].definition
            argument_str == cfg.constructor[1].argument_definition
        IN
        IF ~contains(constructor_str, "{object_name}")
            THEN Some(TransformerError("BadConstructorDefinitionName", constructor_str))
        ELSE IF ~contains(constructor_str, "{arguments}")
            THEN Some(TransformerError("BadConstructorDefinitionArgument", constructor_str))
        ELSE IF ~contains(argument_str, "{name}")
            THEN Some(TransformerError("BadArgumentDefinitionName", argument_str))
        ELSE None

(* the checks under `if let Some(ref constructor)`, lines 88-109 *)
constructor_checks(cfg) ==
    IF cfg.constructor = None THEN None
    ELSE
        LET constructor_str == cfg.constructor[1].definition
            argument_str == cfg.constructor[1].argument_definition
            field == cfg.constructor[1].field_definition
        IN
        IF ~contains(constructor_str, "{object_name}")
            THEN Some(TransformerError("BadConstructorDefinitionName", constructor_str))
        ELSE IF ~contains(constructor_str, "{arguments}")
            THEN Some(TransformerError("BadConstructorDefinitionArgument", constructor_str))
        ELSE IF ~contains(argument_str, "{name}")
            THEN Some(TransformerError("BadArgumentDefinitionName", argument_str))
        ELSE IF field # None /\ ~contains(field[1].field_definition, "{name}")
            THEN Some(TransformerError("BadConstructorFieldDefinition", field[1].field_definition))
        ELSE None

(* Transformer::new; the result is [ok, val] or [ok, err] *)
TransformerNew(cfg, tree, name) ==
    IF template_checks(cfg) # None THEN [ok |-> FALSE, err |-> template_checks(cfg)[1]]
    ELSE IF constructor_checks(cfg) # None THEN [ok |-> FALSE, err |-> constructor_checks(cfg)[1]]
    ELSE [ok |-> TRUE, val |-> [name |-> name, config |-> cfg, tree |-> tree, output |-> <<>>]]

FieldInfo(original_str, type_str, name) ==
    [original_str |-> original_str, type_str |-> type_str, name |-> name]

(* field_line with the two replacement texts exchanged *)
field_line_exchanged(cfg, field_info) ==
    LET with_name == replace(cfg.field_definition, "{field_name}", field_info.type_str)
    IN replace(with_name, "{field_type}", field_info.name)

(* the field line: field_definition with both placeholders replaced *)
field_line(cfg, field_info) ==
    LET with_name == replace(cfg.field_definition, "{field_name}", field_info.name)
    IN replace(with_name, "{field_type}", field_info.type_str)

(* annotation pushing the annotation line for every field *)
annotation_always(cfg, field_info) ==
    <<replace(cfg.name_change_annotation, "{name}", field_info.original_str)>>

(* `if field_info.name != field_info.original_str { object.push(..) }`:    *)
(* the lines pushed                                                         *)
annotation(cfg, field_info) ==
    IF field_info.name # field_info.original_str
    THEN <<replace(cfg.name_change_annotation, "{name}", field_info.original_str)>>
    ELSE <<>>

(* the loop `for field_info in fields.iter()` pushing annotation and field lines *)
RECURSIVE field_lines(_, _)
field_lines(cfg, fields) ==
    IF fields = <<>> THEN <<>>
    ELSE LET field_info == Head(fields)
         IN annotation(cfg, field_info)
            \o <<field_line(cfg, field_info)>>
            \o field_lines(cfg, Tail(fields))

(* push_block putting the block in front of the blocks rendered so far *)
push_block_front(out, object) == <<object>> \o out

(* self.output.push(object) *)
push_block(out, object) == Append(out, object)

(* with_separator putting the separator after every argument *)
with_separator_always(constructor, with_name, i, len) == with_name \o constructor.separator

(* what one turn of the loop pushes to arguments_str: the argument, with   *)
(* the separator or without                                                 *)
with_separator(constructor, with_name, i, len) ==
    IF i < len - 1 \/ (i = len - 1 /\ constructor.separator_at_end)
    THEN with_name \o constructor.separator
    ELSE with_name

(* the loop building arguments_str; i is 0-based *)
RECURSIVE arguments(_, _, _)
arguments(constructor, fields, i) ==
    IF i >= Len(fields) THEN <<>>
    ELSE LET field_info == fields[i + 1]
             with_type == replace(constructor.argument_definition, "{type}", field_info.type_str)
             with_name == replace(with_type, "{name}", field_info.name)
         IN with_separator(constructor, with_name, i, Len(fields))
            \o arguments(constructor, fields, i + 1)

(* the lines the `if let Some(ref constructor)` block pushes *)
constructor_lines(cfg, fields, name) ==
    IF cfg.constructor = None THEN <<>>
    ELSE LET constructor == cfg.constructor[1]
             with_name == replace(constructor.definition, "{object_name}", name)
         IN <<replace(with_name, "{arguments}", arguments(constructor, fields, 0))>>
            \o (IF constructor.field_definition # None
                THEN [k \in 1..Len(fields) |->
                        replace(constructor.field_definition[1].field_definition, "{name}", fields[k].name)]
                     \o <<constructor.field_definition[1].end>>
                ELSE <<>>)

(* array_str without the array_definition around the element name *)
array_str_bare(cfg, field_type) == field_type

(* array_str: array_definition with the element name in place of {field_type} *)
array_str(cfg, field_type) == replace(cfg.array_definition, "{field_type}", field_type)

(* object_field naming the type as the field is named *)
object_field_by_name(name, type_str, case_str) == FieldInfo(name, case_str, case_str)

(* the FieldInfo of a JsonObject child: its type is the name of its block *)
object_field(name, type_str, case_str) == FieldInfo(name, type_str, case_str)

(* renders_block with no element shape rendered *)
renders_block_never(array_type) == FALSE

(* `if let JsonArrayType::JsonObject(tree) = array_type`: the one element   *)
(* shape whose fields are rendered as a block                               *)
renders_block(array_type) == array_type.kind = "JsonObject"

RECURSIVE transform_object(_, _, _, _)
RECURSIVE collect_fields(_, _, _, _, _)

(* `tree.iter().map(..).collect()`: the FieldInfo of each child in order;   *)
(* a nested object is rendered, and its block pushed, when its child is     *)
(* mapped.  out is self.output; the result is [panic, output, fields].      *)
collect_fields(cfg, tree, k, out, fields) ==
    IF k > Len(tree) THEN [panic |-> FALSE, output |-> out, fields |-> fields]
    ELSE
        LET child == tree[k]
            case_str == convert_case(child.name, cfg.case_type)
            type_str == convert_case(child.name, cfg.object_case_type)
            aborted == [panic |-> TRUE, output |-> out, fields |-> fields]
            scalar(t) == collect_fields(cfg, tree, k + 1, out,
                                        Append(fields, FieldInfo(child.name, t, case_str.val)))
        IN
        IF case_str.panic THEN aborted
        ELSE CASE child.kind = "Int" -> scalar(cfg.int_type)
               [] child.kind = "Float" -> scalar(cfg.float_type)
               [] child.kind = "String" -> scalar(cfg.string_type)
               [] child.kind = "Bool" -> scalar(cfg.bool_type)
               [] child.kind = "JsonObject" ->
                    IF type_str.panic THEN aborted
                    ELSE LET inner == transform_object(cfg, child.children, type_str.val, out) IN
                         IF inner.panic THEN [aborted EXCEPT !.output = inner.output]
                         ELSE collect_fields(cfg, tree, k + 1, inner.output,
                                 Append(fields, object_field(child.name, type_str.val, case_str.val)))
               [] OTHER -> \* JsonTree::JsonArray
                    IF renders_block(child.array_type) THEN
                        IF type_str.panic THEN aborted
                        ELSE LET inner == transform_object(cfg, child.array_type.children, type_str.val, out) IN
                             IF inner.panic THEN [aborted EXCEPT !.output = inner.output]
                             ELSE collect_fields(cfg, tree, k + 1, inner.output,
                                     Append(fields, FieldInfo(child.name,
                                            array_str(cfg, type_str.val),
                                            case_str.val)))
                    ELSE collect_fields(cfg, tree, k + 1, out,
                             Append(fields, FieldInfo(child.name,
                                    array_str(cfg, case_str.val),
                                    case_str.val)))

(* transform_object: the result is [panic, output] *)
transform_object(cfg, tree, name, out) ==
    LET c == collect_fields(cfg, tree, 1, out, <<>>) IN
    IF c.panic THEN [panic |-> TRUE, output |-> c.output]
    ELSE LET object == <<replace(cfg.type_definition, "{object_name}", name)>>
                       \o field_lines(cfg, c.fields)
                       \o constructor_lines(cfg, c.fields, name)
                       \o <<cfg.block_end>>
         IN [panic |-> FALSE, output |-> push_block(c.output, object)]

(* start_transform *)
start_transform(self) ==
    LET name == IF self.name # None THEN self.name[1] ELSE <<"R", "o", "o", "t">>
    IN transform_object(self.config, self.tree, name, self.output)

-----------------------------------------------------------------------------
(* The input documents.  A document is a JSON value: a literal with the     *)
(* kind its text has, an object (a sequence of named values) or an array.   *)

Lit(text, type) == [k |-> "lit", text |-> text, type |-> type]
Obj(fields) == [k |-> "obj", fields |-> fields]
Arr(elems) == [k |-> "arr", elems |-> elems]
Field(name, val) == [name |-> name, val |-> val]

RECURSIVE Render(_, _)
RECURSIVE RenderFields(_, _, _)
RECURSIVE RenderElems(_, _, _)

(* the text of a value: "compact" has no blanks, "spaced" a blank after     *)
(* each ":" and ",", "pretty" one member per line                           *)
Render(v, st) ==
    LET nl == IF st = "pretty" THEN <<"\n">> ELSE <<>> IN
    CASE v.k = "lit" -> v.text
      [] v.k = "obj" -> IF v.fields = <<>> THEN <<"{", "}">>
                        ELSE <<"{">> \o nl \o RenderFields(v.fields, 1, st) \o nl \o <<"}">>
      [] OTHER -> IF v.elems = <<>> THEN <<"[", "]">>
                  ELSE <<"[">> \o nl \o RenderElems(v.elems, 1, st) \o nl \o <<"]">>

Separator(st) == IF st = "pretty" THEN <<",", "\n">> ELSE IF st = "spaced" THEN <<",", " ">> ELSE <<",">>

RenderFields(fields, i, st) ==
    LET sp == IF st = "compact" THEN <<>> ELSE <<" ">>
        one == <<"\"">> \o fields[i].name \o <<"\"", ":">> \o sp \o Render(fields[i].val, st)
    IN IF i = Len(fields) THEN one ELSE one \o Separator(st) \o RenderFields(fields, i + 1, st)

RenderElems(elems, i, st) ==
    IF i = Len(elems) THEN Render(elems[i], st)
    ELSE Render(elems[i], st) \o Separator(st) \o RenderElems(elems, i + 1, st)

(* the token values a value is made of *)
RECURSIVE Toks(_)
RECURSIVE ToksFields(_, _)
RECURSIVE ToksElems(_, _)
Toks(v) ==
    CASE v.k = "lit" -> <<Value(v.type)>>
      [] v.k = "obj" -> <<ObjectStart>> \o ToksFields(v.fields, 1) \o <<ObjectEnd>>
      [] OTHER -> <<ArrayStart>> \o ToksElems(v.elems, 1) \o <<ArrayEnd>>
ToksFields(fields, i) ==
    IF i > Len(fields) THEN <<>>
    ELSE <<Name(fields[i].name), Colon>> \o Toks(fields[i].val)
         \o (IF i < Len(fields) THEN <<Comma>> ELSE <<>>) \o ToksFields(fields, i + 1)
ToksElems(elems, i) ==
    IF i > Len(elems) THEN <<>>
    ELSE Toks(elems[i]) \o (IF i < Len(elems) THEN <<Comma>> ELSE <<>>) \o ToksElems(elems, i + 1)

(* a token stream built by hand, as the unit tests of a Tokenizer may: the  *)
(* k-th token stands at line 0, column k - 1                                *)
TokenStream(v) == [k \in 1..Len(Toks(v)) |-> Token(Toks(v)[k], 0, k - 1)]

TokenValues(toks) == [k \in 1..Len(toks) |-> toks[k].value]

-----------------------------------------------------------------------------
(* Bounds and the documents of a run *)

MaxFields == 2    \* fields of a flat root object
MaxElems == 2     \* elements of an array
MaxInner == 2     \* elements of an array inside an array
MaxNested == 2    \* fields of a nested object

SeqsUpTo(S, n) == UNION {[1..m -> S] : m \in 0..n}

LInt1 == Lit(<<"5">>, "Int")
LInt2 == Lit(<<"1", "2">>, "Int")
LFloat == Lit(<<"4", ".", "5">>, "Float")
LTrue == Lit(<<"t", "r", "u", "e">>, "Bool")
LStr == Lit(<<"\"", "v", "\"">>, "String")
LNull == Lit(<<"n", "u", "l", "l">>, "Null")
Lits == {LInt1, LInt2, LFloat, LTrue, LStr, LNull}

RootName == << <<"f", "1">>, <<"h", "o", "L", "a">>, <<"a", "_", "b">>, <<"f", "4">> >>
NestName == << <<"g", "1">>, <<"g", "2">>, <<"g", "3">> >>
ElemNames == {<<"a">>, <<"b">>}
ElemVals == {LInt1, LStr}

FlatDocs ==
    {Obj([i \in 1..Len(vals) |-> Field(RootName[i], vals[i])]) : vals \in SeqsUpTo(Lits, MaxFields)}

ScalarArrays == {Arr(e) : e \in SeqsUpTo(Lits, MaxElems)}

ElemObjs ==
    {Obj(<<>>)}
    \cup {Obj(<<Field(n, v)>>) : n \in ElemNames, v \in ElemVals}
    \cup {Obj(<<Field(f[1], f[2]), Field(f[3], f[4])>>) :
            f \in {g \in ElemNames \X ElemVals \X ElemNames \X ElemVals : g[1] # g[3]}}

ObjArrays == {Arr(e) : e \in SeqsUpTo(ElemObjs, MaxElems) \ {<<>>}}

InnerArrays == {Arr(e) : e \in SeqsUpTo({LInt1, LFloat}, MaxInner)}
ArrArrays == {Arr(e) : e \in SeqsUpTo(InnerArrays, MaxElems) \ {<<>>}}

MixedArrays ==
    {Arr(e) : e \in [1..2 -> {LInt1, Obj(<<Field(<<"a">>, LInt1)>>), Arr(<<LInt1>>)}]}

Obj1 == {Obj(<<>>), Obj(<<Field(<<"h">>, LInt1)>>)}
NestedObjs ==
    {Obj([i \in 1..Len(vals) |-> Field(NestName[i], vals[i])]) :
        vals \in SeqsUpTo({LInt1, LTrue} \cup Obj1, MaxNested)}

SiblingVals ==
    {Obj(<<Field(<<"h">>, LInt1)>>),
     Obj(<<Field(<<"g", "1">>, Obj(<<Field(<<"h">>, LInt1)>>))>>),
     Arr(<<Obj(<<Field(<<"a">>, LInt1)>>)>>),
     Arr(<<LInt1>>)}
SiblingDocs ==
    {Obj(<<Field(RootName[1], x), Field(RootName[4], y)>>) : x \in SiblingVals, y \in SiblingVals}

(* a root object with the value c as its only field, before a further      *)
(* field, or after one                                                      *)
Alone(C) == {Obj(<<Field(RootName[1], c)>>) : c \in C}
RootWith(C) ==
    Alone(C)
    \cup {Obj(<<Field(RootName[1], c), Field(RootName[4], LInt2)>>) : c \in C}
    \cup {Obj(<<Field(RootName[4], LStr), Field(RootName[1], c)>>) : c \in C}

(* configurations with placeholders missing: a built-in definition with   *)
(* up to MaxMissing of its required placeholders taken out                  *)
MaxMissing == 2   \* placeholders missing from one configuration

Without(template, placeholder) == SelectSeq(template, LAMBDA p : p # placeholder)

TemplateDefects ==
    {"type_definition.object_name", "field_definition.field_name", "field_definition.field_type",
     "array_definition.field_type", "name_change_annotation.name"}
ConstructorDefects ==
    {"constructor.object_name", "constructor.arguments", "argument_definition.name"}

Applicable(cfg) ==
    TemplateDefects
    \cup (IF cfg.constructor # None THEN ConstructorDefects ELSE {})
    \cup (IF cfg.constructor # None /\ cfg.constructor[1].field_definition # None
          THEN {"constructor_field.name"} ELSE {})

TakeOut(cfg, d) ==
    CASE d = "type_definition.object_name" ->
            [cfg EXCEPT !.type_definition = Without(@, "{object_name}")]
      [] d = "field_definition.field_name" ->
            [cfg EXCEPT !.field_definition = Without(@, "{field_name}")]
      [] d = "field_definition.field_type" ->
            [cfg EXCEPT !.field_definition = Without(@, "{field_type}")]
      [] d = "array_definition.field_type" ->
            [cfg EXCEPT !.array_definition = Without(@, "{field_type}")]
      [] d = "name_change_annotation.name" ->
            [cfg EXCEPT !.name_change_annotation = Without(@, "{name}")]
      [] d = "constructor.object_name" ->
            [cfg EXCEPT !.constructor[1].definition = Without(@, "{object_name}")]
      [] d = "constructor.arguments" ->
            [cfg EXCEPT !.constructor[1].definition = Without(@, "{arguments}")]
      [] d = "argument_definition.name" ->
            [cfg EXCEPT !.constructor[1].argument_definition = Without(@, "{name}")]
      [] OTHER ->
            [cfg EXCEPT !.constructor[1].field_definition[1].field_definition = Without(@, "{name}")]

RECURSIVE TakeOutAll(_, _)
TakeOutAll(cfg, ds) ==
    IF ds = {} THEN cfg
    ELSE LET d == CHOOSE x \in ds : TRUE IN TakeOutAll(TakeOut(cfg, d), ds \ {d})

BadConfigsOf(base) ==
    {TakeOutAll(base, ds) :
        ds \in {d \in SUBSET Applicable(base) : Cardinality(d) \in 1..MaxMissing}}
BadConfigs ==
    BadConfigsOf(RUST_DEFINITION) \cup BadConfigsOf(JAVA_DEFINITION) \cup BadConfigsOf(DART_DEFINITION)

(* documents for them: one that builds, two that the schema builder rejects *)
ConfigDocs ==
    {Obj(<<Field(RootName[1], LInt2)>>),
     Obj(<<Field(RootName[1], Arr(<<>>))>>),
     Obj(<<Field(RootName[1], Arr(<<LInt2, LFloat>>))>>)}

(* texts that need not be JSON: up to MaxChunks pieces, each a character   *)
(* of the grammar, a quoted name, a number, a letter or a line end          *)
MaxChunks == 3    \* pieces of a raw text

Chunks ==
    {<<"{">>, <<"}">>, <<":">>, <<",">>, <<"\"">>, <<"1", "2">>, <<"t">>, <<"\n">>,
     <<"\"", "a", "\"">>, <<"\"", "º", "\"">>, <<"\"", "a", "º", "\"">>, <<"º", "º", "º">>}

Raw(text) == Lit(text, "Raw")
RawDocs == {Raw(Flatten(cs)) : cs \in SeqsUpTo(Chunks, MaxChunks)}

(* documents whose error lies inside a nested object or array *)
DeepDocs ==
    {Obj(<<Field(RootName[1], Obj(<<Field(NestName[1], v)>>)), Field(RootName[4], LNull)>>) :
        v \in {LNull, Arr(<<>>), Arr(<<LInt2, LNull>>), Arr(<<Obj(<<Field(<<"a">>, LNull)>>)>>),
               Arr(<<Arr(<<LInt2>>), Arr(<<>>)>>), Arr(<<LInt2, LFloat, LNull>>), LInt2}}

(* token streams built by hand from a document with its first token, or    *)
(* its Colon tokens, left out                                               *)
Damaged == {"noroot", "nocolon"}
DamagedStream(v, st) ==
    IF st = "noroot" THEN Tail(TokenStream(v))
    ELSE SelectSeq(TokenStream(v), LAMBDA t : t.value # Colon)

(* field names for case conversion: every text of up to MaxNameLen        *)
(* characters over a lower-case letter, an upper-case letter, the two       *)
(* separators and a character outside ASCII                                 *)
MaxNameLen == 3   \* characters of a name handed to convert_case

CaseAlphabet == {"a", "B", "_", "-", "º"}
CaseNames == SeqsUpTo(CaseAlphabet, MaxNameLen)
CaseTypes == {"SnakeCase", "CamelCase", "UpperCamelCase"}
CaseDocs == {Obj(<<Field(n, LInt1)>>) : n \in CaseNames}
CaseConfigs == {[RUST_DEFINITION EXCEPT !.case_type = c] : c \in CaseTypes}

(* names and string values with an escaped quote in them *)
EscName == <<"a", "\\", "\"", "b">>
EscStr == Lit(<<"\"", "v", "\\", "\"", "w", "\"">>, "String")
EscDocs ==
    {Obj(<<Field(n, v)>>) : n \in {<<"a">>, EscName}, v \in {LStr, EscStr}}
    \cup {Obj(<<Field(n, v), Field(RootName[4], LInt2)>>) : n \in {<<"a">>, EscName}, v \in {LStr, EscStr}}

(* a string value of up to MaxWide characters outside ASCII, then a field   *)
(* on the same line                                                         *)
MaxWide == 3      \* characters outside ASCII before a name on its line

WideStr(n) == Lit(<<"\"">> \o [k \in 1..n |-> "º"] \o <<"\"">>, "String")
WideDocs == {Obj(<<Field(<<"x">>, WideStr(n)), Field(<<"a">>, LInt2)>>) : n \in 0..MaxWide}

(* token streams built by hand from a document that builds, with one more  *)
(* token put in after the first `at` tokens; the token stands at line 1     *)
SoundDocs ==
    {Obj(<<Field(RootName[1], LInt2), Field(RootName[4], LStr)>>),
     Obj(<<Field(RootName[1], Obj(<<Field(NestName[1], LInt2)>>)), Field(RootName[4], LTrue)>>),
     Obj(<<Field(RootName[1], Arr(<<LInt2, LInt2>>)), Field(RootName[4], LInt2)>>),
     Obj(<<Field(RootName[1], Arr(<<Obj(<<Field(<<"a">>, LInt1)>>), Obj(<<Field(<<"b">>, LInt1)>>)>>))>>),
     Obj(<<Field(RootName[1], Obj(<<>>)), Field(RootName[4], Arr(<<Arr(<<LInt1>>)>>))>>)}

ExtraTokens == {Name(<<"x">>), Colon, Value("Int"), Value("Null"), ArrayStart, ObjectStart}

WithExtra(base, at, extra) == [k |-> "obj", fields |-> base.fields, at |-> at, extra |-> extra]
ExtraDocs ==
    UNION {{WithExtra(base, at, extra) : at \in 0..Len(Toks(base)), extra \in ExtraTokens} :
            base \in SoundDocs}

ExtraStream(v) ==
    LET ts == TokenStream(Obj(v.fields)) IN
    SubSeq(ts, 1, v.at) \o <<Token(v.extra, 1, v.at)>> \o SubSeq(ts, v.at + 1, Len(ts))

(* documents for the renderer: nested objects, arrays of objects and       *)
(* arrays of arrays, with field names that case conversion changes          *)
RichDocs ==
    {Obj(<<Field(RootName[2], Obj(<<Field(RootName[3], LInt1), Field(RootName[2], LStr)>>)),
           Field(RootName[3], Arr(<<Obj(<<Field(RootName[2], LInt1)>>)>>)),
           Field(RootName[1], Arr(<<LInt1>>))>>),
     Obj(<<Field(RootName[3], Arr(<<Arr(<<Obj(<<Field(<<"a">>, LInt1)>>)>>)>>)),
           Field(RootName[4], Arr(<<Arr(<<LInt1>>)>>))>>),
     Obj(<<Field(RootName[2], Arr(<<Obj(<<Field(RootName[3], LInt1)>>),
                                    Obj(<<Field(RootName[1], LStr)>>)>>)),
           Field(RootName[4], Obj(<<>>))>>),
     Obj(<<Field(RootName[1], Obj(<<Field(RootName[2], Obj(<<Field(RootName[3], LTrue)>>))>>)),
           Field(RootName[3], LFloat)>>)}

Presets == {RUST_DEFINITION, JAVA_DEFINITION, DART_DEFINITION, KOTLIN_DEFINITION}

(* arrays of arrays of objects *)
InnerObjArrays ==
    {Arr(<<o>>) : o \in {Obj(<<Field(<<"a">>, LInt1)>>), Obj(<<Field(<<"b">>, LInt1)>>),
                         Obj(<<Field(<<"a">>, LInt1), Field(<<"b">>, LInt1)>>)}}
    \cup {Arr(<<Obj(<<Field(<<"a">>, LInt1)>>), Obj(<<Field(<<"b">>, LInt1)>>)>>)}
DeepArrDocs ==
    {Obj(<<Field(RootName[1], Arr(<<x, y>>))>>) : x \in InnerObjArrays, y \in InnerObjArrays}
    \cup {Obj(<<Field(RootName[4], LInt2), Field(RootName[1], Arr(<<x, y>>))>>) :
            x \in InnerObjArrays, y \in InnerObjArrays}

(* token streams built by hand from a document that builds: its first `at` *)
(* tokens alone, or all of them and then up to MaxTrail more                *)
MaxTrail == 2     \* tokens after the ObjectEnd of the root

CutOff(base, at) == [k |-> "obj", fields |-> base.fields, at |-> at]
CutDocs == UNION {{CutOff(base, at) : at \in 0..(Len(Toks(base)) - 1)} : base \in SoundDocs \cup RichDocs}
CutStream(v) == SubSeq(TokenStream(Obj(v.fields)), 1, v.at)

WithTrail(base, trail) == [k |-> "obj", fields |-> base.fields, trail |-> trail]
TrailDocs ==
    {WithTrail(base, trail) : base \in SoundDocs, trail \in SeqsUpTo(ExtraTokens, MaxTrail) \ {<<>>}}
TrailStream(v) ==
    TokenStream(Obj(v.fields)) \o [j \in 1..Len(v.trail) |-> Token(v.trail[j], 1, j - 1)]

Layouts == {"compact", "spaced", "pretty"}

(* the runs: <<document, style, configuration>> *)
Runs ==
    (FlatDocs \X (Layouts \cup {"tokens"}) \X {RUST_DEFINITION})
    \cup (FlatDocs \X {"tokens"} \X {KOTLIN_DEFINITION, JAVA_DEFINITION, DART_DEFINITION})
    \cup (RootWith(ScalarArrays) \X (Layouts \cup {"tokens"}) \X {RUST_DEFINITION})
    \cup (Alone(ObjArrays) \X {"compact", "tokens"} \X {RUST_DEFINITION})
    \cup (RootWith(ArrArrays \cup MixedArrays) \X {"spaced", "tokens"} \X {RUST_DEFINITION})
    \cup (RootWith(NestedObjs) \X {"compact", "pretty", "tokens"} \X {RUST_DEFINITION})
    \cup (RootWith(NestedObjs) \X {"tokens"} \X {JAVA_DEFINITION})
    \cup (SiblingDocs \X {"spaced", "tokens"} \X {RUST_DEFINITION, JAVA_DEFINITION})
    \cup (ConfigDocs \X {"compact", "tokens"} \X BadConfigs)
    \cup (RawDocs \X {"raw"} \X {RUST_DEFINITION})
    \cup (CaseDocs \X {"tokens"} \X CaseConfigs)
    \cup (DeepDocs \X {"spaced", "tokens"} \X {RUST_DEFINITION})
    \cup ((FlatDocs \cup RootWith(NestedObjs) \cup Alone(ScalarArrays)) \X Damaged \X {RUST_DEFINITION})
    \cup (EscDocs \X Layouts \X {RUST_DEFINITION})
    \cup (WideDocs \X {"compact", "spaced"} \X {RUST_DEFINITION})
    \cup (ExtraDocs \X {"extra"} \X {RUST_DEFINITION})
    \cup (RichDocs \X {"tokens"} \X Presets)
    \cup (RichDocs \X {"compact"} \X {RUST_DEFINITION})
    \cup (DeepArrDocs \X {"compact", "tokens"} \X {RUST_DEFINITION})
    \cup (CutDocs \X {"cut"} \X {RUST_DEFINITION})
    \cup (TrailDocs \X {"trail"} \X {RUST_DEFINITION})

-----------------------------------------------------------------------------
(* lib::run *)

Init ==
    \E r \in Runs :
        /\ doc = r[1] /\ style = r[2] /\ config = r[3]
        /\ IF r[2] \in {"tokens", "extra", "cut", "trail"} \cup Damaged
           THEN /\ lexer = LexerNew(<<>>) /\ step = "Done"
                /\ tokens = (IF r[2] = "tokens" THEN TokenStream(r[1])
                             ELSE IF r[2] = "extra" THEN ExtraStream(r[1])
                             ELSE IF r[2] = "cut" THEN CutStream(r[1])
                             ELSE IF r[2] = "trail" THEN TrailStream(r[1])
                             ELSE DamagedStream(r[1], r[2]))
                /\ phase = "tokenize"
           ELSE /\ lexer = LexerNew(Render(r[1], r[2])) /\ step = "LexCharacter"
                /\ tokens = <<>> /\ phase = "lex"
        /\ tokenizer = None /\ transformer = None /\ output = None /\ printed = <<>>

(* Tokenizer::new(lexer_result).start_tokenizer()? *)
Tokenize ==
    /\ phase = "tokenize"
    /\ LET r == start_tokenizer(tokens) IN
        /\ tokenizer' = Some(r)
        /\ phase' = IF r.ok THEN "new" ELSE "failed"
    /\ UNCHANGED <<doc, style, lexer, step, tokens, config, transformer, output, printed>>

(* Transformer::new(config.transformer_config, tokenizer_result, None)? *)
NewTransformer ==
    /\ phase = "new"
    /\ LET r == TransformerNew(config, tokenizer[1].val, None) IN
        /\ transformer' = Some(r)
        /\ phase' = IF r.ok THEN "transform" ELSE "failed"
    /\ UNCHANGED <<doc, style, lexer, step, tokens, tokenizer, config, output, printed>>

(* transformer.start_transform() *)
StartTransform ==
    /\ phase = "transform"
    /\ LET r == start_transform(transformer[1].val) IN
        /\ output' = Some(r.output)
        /\ phase' = IF r.panic THEN "panic" ELSE "print"
    /\ UNCHANGED <<doc, style, lexer, step, tokens, tokenizer, config, transformer, printed>>

Reverse(s) == [k \in 1..Len(s) |-> s[Len(s) + 1 - k]]

(* result.iter().rev().for_each(|object| object.iter().for_each(println)) *)
PrintBlocks ==
    /\ phase = "print"
    /\ printed' = Flatten(Reverse(output[1]))
    /\ phase' = "done"
    /\ UNCHANGED <<doc, style, lexer, step, tokens, tokenizer, config, transformer, output>>

Next ==
    \/ LexCharacter
    \/ LexNumberType
    \/ LexName
    \/ LexString
    \/ LexBoolean
    \/ LexDone
    \/ Tokenize
    \/ NewTransformer
    \/ StartTransform
    \/ PrintBlocks

Spec == Init /\ [][Next]_vars

-----------------------------------------------------------------------------
(* What the claims speak of *)

Tokenized == tokenizer # None
Built == tokenizer[1]
FromText == style \in Layouts
(* the token stream is the one the document is made of *)
TokensOfDoc == TokenValues(tokens) = Toks(doc)

IsScalarLit(v) == v.k = "lit" /\ v.type # "Null"
LeavesOf(fields) == [i \in 1..Len(fields) |-> Leaf(fields[i].val.type, fields[i].name)]

(* a non-empty array of literals of one scalar kind *)
UniformScalarArray(v) ==
    /\ v.k = "arr" /\ v.elems # <<>>
    /\ \A i \in 1..Len(v.elems) : IsScalarLit(v.elems[i]) /\ v.elems[i].type = v.elems[1].type

RECURSIVE HasNull(_)
HasNull(v) ==
    CASE v.k = "lit" -> v.type = "Null"
      [] v.k = "obj" -> \E i \in 1..Len(v.fields) : HasNull(v.fields[i].val)
      [] OTHER -> \E i \in 1..Len(v.elems) : HasNull(v.elems[i])

(* a non-empty array of objects with scalar fields *)
ObjectArray(v) ==
    /\ v.k = "arr" /\ v.elems # <<>>
    /\ \A i \in 1..Len(v.elems) :
        /\ v.elems[i].k = "obj"
        /\ \A j \in 1..Len(v.elems[i].fields) : IsScalarLit(v.elems[i].fields[j].val)

HasName(children, name) == \E k \in 1..Len(children) : children[k].name = name

(* children, then those of leaves whose name is not among them yet *)
RECURSIVE AddNewNames(_, _)
AddNewNames(children, leaves) ==
    IF leaves = <<>> THEN children
    ELSE AddNewNames(IF HasName(children, Head(leaves).name) THEN children
                     ELSE Append(children, Head(leaves)),
                     Tail(leaves))

RECURSIVE UnionOfElems(_, _)
UnionOfElems(elems, i) ==
    IF i = 1 THEN LeavesOf(elems[1].fields)
    ELSE AddNewNames(UnionOfElems(elems, i - 1), LeavesOf(elems[i].fields))

DistinctNames(children) ==
    \A i, j \in 1..Len(children) : children[i].name = children[j].name => i = j

(* C1: a text of an object with scalar fields only, lexed and then built,   *)
(* gives one leaf per field, in source order, with the field's name and the *)
(* kind of its literal.                                                     *)
C1_FlatObjectLeaves ==
    (FromText /\ Tokenized /\ \A i \in 1..Len(doc.fields) : IsScalarLit(doc.fields[i].val))
        => (Built.ok /\ Built.val = LeavesOf(doc.fields))

(* C2: a field whose value is a non-empty array of literals of one scalar   *)
(* kind K, lexed and then built, gives the node Array(field name, K).       *)
C2_UniformScalarArray ==
    (FromText /\ Tokenized
        /\ \A i \in 1..Len(doc.fields) :
              IsScalarLit(doc.fields[i].val) \/ UniformScalarArray(doc.fields[i].val))
        => (/\ Built.ok
            /\ Len(Built.val) = Len(doc.fields)
            /\ \A i \in 1..Len(doc.fields) :
                  UniformScalarArray(doc.fields[i].val) =>
                      Built.val[i] = JsonArray(doc.fields[i].name,
                                               ScalarType(doc.fields[i].val.elems[1].type)))

(* C3: for an array of objects the unified shape is an Object holding the   *)
(* first element's fields, then of each later element the fields whose      *)
(* name is not present yet.                                                 *)
C3_ObjectArrayUnion ==
    (Tokenized /\ TokensOfDoc /\ Len(doc.fields) = 1 /\ ObjectArray(doc.fields[1].val))
        => (/\ Built.ok
            /\ Built.val = <<JsonArray(doc.fields[1].name,
                                       ObjectType(UnionOfElems(doc.fields[1].val.elems,
                                                               Len(doc.fields[1].val.elems))))>>)

(* C4: in a built Array node with an Object shape no two children of the    *)
(* shape have the same name.                                                *)
C4_ObjectArrayNamesOnce ==
    (Tokenized /\ Built.ok)
        => \A i \in 1..Len(Built.val) :
              (Built.val[i].kind = "JsonArray" /\ Built.val[i].array_type.kind = "JsonObject")
                  => DistinctNames(Built.val[i].array_type.children)

(* C5: a text with a null literal as a field value or an array element,     *)
(* lexed and then built, fails with NullNotSupportedError.                  *)
C5_NullRejected ==
    (FromText /\ Tokenized /\ HasNull(doc))
        => (~Built.ok /\ Built.err.kind = "NullNotSupportedError")

(* an ArrayEnd that parse-array reaches with nothing folded: between it and *)
(* the ArrayStart before it there are only Commas                           *)
EmptyArrayEnd(toks, k) ==
    /\ k >= 1 /\ toks[k].value = ArrayEnd
    /\ \E j \in 1..(k - 1) :
          toks[j].value = ArrayStart /\ \A m \in (j + 1)..(k - 1) : toks[m].value = Comma

ArrayOfArrays(v) ==
    /\ v.k = "arr" /\ v.elems # <<>>
    /\ \A i \in 1..Len(v.elems) : UniformScalarArray(v.elems[i])
InnerKind(v, i) == v.elems[i].elems[1].type

(* C7: for an array of arrays, the builder gives Array(name, Array(S)) when *)
(* every inner array unifies to the same shape S, and fails with            *)
(* SyntaxError when two inner arrays unify to different scalar kinds.       *)
C7_ArrayOfArrays ==
    (Tokenized /\ TokensOfDoc)
        => \A i \in 1..Len(doc.fields) :
              (/\ ArrayOfArrays(doc.fields[i].val)
               /\ \A j \in 1..Len(doc.fields) : j # i => IsScalarLit(doc.fields[j].val))
                  => LET v == doc.fields[i].val IN
                     IF \A a \in 1..Len(v.elems) : InnerKind(v, a) = InnerKind(v, 1)
                     THEN /\ Built.ok
                          /\ Built.val[i] = JsonArray(doc.fields[i].name,
                                                      ArrayType(ScalarType(InnerKind(v, 1))))
                     ELSE ~Built.ok /\ Built.err.kind = "SyntaxError"

C7_Witness ==
    /\ Tokenized /\ FromText /\ TokensOfDoc /\ Built.ok
    /\ Len(doc.fields) = 1 /\ ArrayOfArrays(doc.fields[1].val)
    /\ Len(doc.fields[1].val.elems) >= 2
    /\ Built.val[1].array_type = ArrayType(ScalarType("Float"))

(* objects whose values are scalar literals or objects of that kind *)
RECURSIVE OnlyObjects(_)
OnlyObjects(v) ==
    \A i \in 1..Len(v.fields) :
        IsScalarLit(v.fields[i].val) \/ (v.fields[i].val.k = "obj" /\ OnlyObjects(v.fields[i].val))

RECURSIVE SchemaOf(_)
SchemaOf(fields) ==
    [i \in 1..Len(fields) |->
        IF fields[i].val.k = "lit" THEN Leaf(fields[i].val.type, fields[i].name)
        ELSE JsonObject(fields[i].name, SchemaOf(fields[i].val.fields))]

(* C8: a field whose value is an object becomes, at any depth, one Object   *)
(* node with the field's name at the field's place, holding the nested      *)
(* fields in order; fields after the closing brace go to the enclosing      *)
(* object.                                                                  *)
C8_NestedObjects ==
    (Tokenized /\ TokensOfDoc /\ OnlyObjects(doc))
        => (Built.ok /\ Built.val = SchemaOf(doc.fields))

C8_Witness ==
    /\ Tokenized /\ FromText /\ TokensOfDoc /\ Built.ok
    /\ Len(Built.val) = 2 /\ Built.val[1].kind = "JsonObject" /\ Built.val[2].kind = "Int"
    /\ Len(Built.val[1].children) = 2
    /\ Built.val[1].children[1].kind = "JsonObject"
    /\ Built.val[1].children[1].children # <<>>
    /\ Built.val[1].children[2].kind = "Bool"

Rendered == phase \in {"print", "done"}
RootTypeName == <<"R", "o", "o", "t">>
TypeLine(cfg, name) == replace(cfg.type_definition, "{object_name}", name)

(* the type names of the objects of a schema, every nested object before    *)
(* the object holding it, siblings in field order                           *)
RECURSIVE PostOrder(_, _, _)
PostOrder(cfg, tree, name) ==
    Flatten([i \in 1..Len(tree) |->
                IF tree[i].kind = "JsonObject"
                THEN PostOrder(cfg, tree[i].children,
                               convert_case(tree[i].name, cfg.object_case_type).val)
                ELSE IF tree[i].kind = "JsonArray" /\ tree[i].array_type.kind = "JsonObject"
                THEN PostOrder(cfg, tree[i].array_type.children,
                               convert_case(tree[i].name, cfg.object_case_type).val)
                ELSE <<>>])
    \o <<name>>

(* C9: in the list start_transform returns every nested object's block      *)
(* stands before the block of the object holding it, sibling blocks stand   *)
(* in the order of their fields, and the root block is last.                *)
C9_NestedBlocksFirst ==
    Rendered =>
        LET names == PostOrder(config, Built.val, RootTypeName) IN
        /\ Len(output[1]) = Len(names)
        /\ \A k \in 1..Len(names) : output[1][k][1] = TypeLine(config, names[k])

C9_Witness ==
    /\ phase = "done" /\ Len(output[1]) = 4 /\ Len(Built.val) = 2
    /\ Built.val[1].kind = "JsonObject" /\ Built.val[2].kind = "JsonObject"
    /\ Built.val[1].children[1].kind = "JsonObject"

PrimitiveType(cfg, kind) ==
    CASE kind = "Int" -> cfg.int_type
      [] kind = "Float" -> cfg.float_type
      [] kind = "Bool" -> cfg.bool_type
      [] OTHER -> cfg.string_type

ScalarKinds == {"Int", "Float", "Bool", "String"}

(* n scalar fields whose names case conversion leaves as they are, and no   *)
(* constructor                                                              *)
PlainFlatSchema ==
    /\ config.constructor = None
    /\ \A i \in 1..Len(Built.val) :
          /\ Built.val[i].kind \in ScalarKinds
          /\ convert_case(Built.val[i].name, config.case_type) = Fine(Built.val[i].name)

(* C10: such a schema renders as one block: the type_definition line with   *)
(* the root name, one field_definition line per field in schema order with  *)
(* the field's name and the configured type name of its kind, block_end.    *)
C10_FlatBlock ==
    (Rendered /\ PlainFlatSchema)
        => output[1] =
              << <<TypeLine(config, RootTypeName)>>
                 \o [i \in 1..Len(Built.val) |->
                        replace(replace(config.field_definition, "{field_name}", Built.val[i].name),
                                "{field_type}", PrimitiveType(config, Built.val[i].kind))]
                 \o <<config.block_end>> >>

C10_Witness ==
    /\ phase = "done" /\ PlainFlatSchema /\ config = KOTLIN_DEFINITION
    /\ Len(Built.val) = 2 /\ Len(output[1]) = 1 /\ Len(output[1][1]) = 4
    /\ Built.val[1].kind # Built.val[2].kind

-----------------------------------------------------------------------------
(* Configuration validation *)

Lacks(template, placeholder) == \A k \in 1..Len(template) : template[k] # placeholder

(* a required placeholder is missing from the configuration *)
MissingPlaceholder(cfg) ==
    \/ Lacks(cfg.type_definition, "{object_name}")
    \/ Lacks(cfg.field_definition, "{field_name}")
    \/ Lacks(cfg.field_definition, "{field_type}")
    \/ Lacks(cfg.array_definition, "{field_type}")
    \/ Lacks(cfg.name_change_annotation, "{name}")
    \/ /\ cfg.constructor # None
       /\ \/ Lacks(cfg.constructor[1].definition, "{object_name}")
          \/ Lacks(cfg.constructor[1].definition, "{arguments}")
          \/ Lacks(cfg.constructor[1].argument_definition, "{name}")
          \/ /\ cfg.constructor[1].field_definition # None
             /\ Lacks(cfg.constructor[1].field_definition[1].field_definition, "{name}")

ConfigErrorKinds ==
    {"BadTypeDefinition", "BadFieldDefinitionName", "BadFieldDefinitionType",
     "BadFieldRenameDefinition", "BadArrayTypeDefinition", "BadConstructorDefinitionName",
     "BadConstructorDefinitionArgument", "BadArgumentDefinitionName",
     "BadConstructorFieldDefinition"}

Validated == transformer # None
ConfigError == Validated /\ ~transformer[1].ok

(* C11: Transformer::new returns a configuration error and no Transformer  *)
(* whenever one of the required placeholders is missing, and a Transformer  *)
(* holding the configuration when none is missing.                          *)
C11_ConfigValidated ==
    Validated =>
        IF MissingPlaceholder(config)
        THEN /\ ~transformer[1].ok
             /\ transformer[1].err.kind \in ConfigErrorKinds
             /\ "val" \notin DOMAIN transformer[1]
        ELSE /\ transformer[1].ok
             /\ transformer[1].val.config = config

(* the field-assignment sub-template alone lacks {name} *)
C11_Witness ==
    /\ ConfigError
    /\ transformer[1].err.kind = "BadConstructorFieldDefinition"
    /\ ~Lacks(config.constructor[1].argument_definition, "{name}")

(* the template an error kind is about *)
OffendingTemplate(cfg, kind) ==
    CASE kind = "BadTypeDefinition" -> cfg.type_definition
      [] kind \in {"BadFieldDefinitionName", "BadFieldDefinitionType"} -> cfg.field_definition
      [] kind = "BadFieldRenameDefinition" -> cfg.name_change_annotation
      [] kind = "BadArrayTypeDefinition" -> cfg.array_definition
      [] kind \in {"BadConstructorDefinitionName", "BadConstructorDefinitionArgument"} ->
            cfg.constructor[1].definition
      [] kind = "BadArgumentDefinitionName" -> cfg.constructor[1].argument_definition
      [] OTHER -> cfg.constructor[1].field_definition[1].field_definition

(* C12: the payload of every configuration error is the text of the        *)
(* template that is missing the placeholder.                                *)
C12_ErrorCarriesTemplate ==
    ConfigError => transformer[1].err.text = OffendingTemplate(config, transformer[1].err.kind)

(* C13: the configuration is validated before any part of the document is  *)
(* lexed or schema-built, and a run with a configuration missing a          *)
(* placeholder ends with the configuration error whatever the document.     *)
C13_ConfigBeforeDocument ==
    MissingPlaceholder(config) =>
        /\ ~Validated => lexer.tokens = <<>> /\ tokenizer = None
        /\ phase = "failed" => ConfigError

(* C13 as amended: the configuration is validated after the document is    *)
(* lexed and schema-built and before any block is generated; with a         *)
(* placeholder missing, a document that builds ends the run with the        *)
(* configuration error, one that does not build with its schema error, and  *)
(* nothing is generated or printed.                                         *)
C13_ConfigBeforeOutput ==
    MissingPlaceholder(config) =>
        /\ output = None /\ printed = <<>>
        /\ phase \notin {"transform", "print", "done"}
        /\ Validated => Tokenized /\ Built.ok
        /\ phase = "failed" => IF Built.ok THEN ConfigError ELSE ~Validated

C13_Witness ==
    /\ MissingPlaceholder(config) /\ FromText
    /\ phase = "failed" /\ Built.ok /\ ConfigError
    /\ Len(lexer.tokens) > 0

-----------------------------------------------------------------------------
(* The lexer on arbitrary text *)

(* C14: Lexer::start_lex never aborts, whatever the text: with a quote     *)
(* before any token, unterminated quotes, characters outside ASCII in or    *)
(* before a name, or no text at all.                                        *)
C14_LexerTotal == ~lexer.panicked

-----------------------------------------------------------------------------
(* Case conversion *)

(* the transformer has converted the name of the only field of the document *)
Converted == doc \in CaseDocs /\ output # None
TheName == doc.fields[1].name
TheCase == config.case_type

(* C15: convert_case returns a text for every text and every convention,   *)
(* also for the empty text, a text ending in a separator and a text whose   *)
(* first character is outside ASCII.                                        *)
C15_ConvertTotal == Converted => ~convert_case(TheName, TheCase).panic

(* a text written in a convention *)
NoneOf(x, S) == \A k \in 1..Len(x) : x[k] \notin S
InConvention(x, c) ==
    CASE c = "SnakeCase" -> NoneOf(x, {"B", "-"})
      [] c = "CamelCase" -> NoneOf(x, {"_", "-"}) /\ (x # <<>> => x[1] # "B")
      [] OTHER -> NoneOf(x, {"_", "-"}) /\ (x # <<>> => x[1] # "a")

(* C16: converting twice gives what converting once gives, and a text      *)
(* already written in the convention comes back unchanged.                  *)
C16_ConvertIdempotent ==
    Converted =>
        LET once == convert_case(TheName, TheCase) IN
        /\ ~once.panic
        /\ convert_case(once.val, TheCase) = once
        /\ InConvention(TheName, TheCase) => once.val = TheName

(* the same for the texts that convert_case does convert *)
C16_IdempotentWhereDefined ==
    Converted =>
        LET once == convert_case(TheName, TheCase) IN
        ~once.panic =>
            /\ convert_case(once.val, TheCase) = once
            /\ InConvention(TheName, TheCase) => once.val = TheName

-----------------------------------------------------------------------------
(* Errors of the schema builder *)

Failed == Tokenized /\ ~Built.ok

(* C17: a document whose first token is not ObjectStart is rejected: the   *)
(* schema builder fails and returns no schema.                              *)
C17_RootMustBeObject ==
    (Tokenized /\ tokens # <<>> /\ tokens[1].value # ObjectStart) => ~Built.ok

(* a Name token directly followed by a value token *)
NameThenValue(toks, k) ==
    /\ k < Len(toks)
    /\ toks[k].value.kind = "Name"
    /\ toks[k + 1].value.kind \in {"Value", "ObjectStart", "ArrayStart"}

(* C18: a token stream in which a Name token inside an object is followed  *)
(* directly by its value, with no Colon between them, fails with            *)
(* SyntaxError.                                                             *)
C18_MissingColon ==
    (Tokenized /\ tokens # <<>> /\ tokens[1].value = ObjectStart
        /\ \E k \in 1..Len(tokens) : NameThenValue(tokens, k))
    => (~Built.ok /\ Built.err.kind = "SyntaxError")

(* token j completes something no schema can hold, whatever surrounds it:  *)
(* a null, an array closed right after it was opened, two values of         *)
(* different kinds around a comma, or a name right after a name             *)
Offence(toks, j) ==
    \/ toks[j].value = Value("Null")
    \/ j >= 2 /\ toks[j - 1].value = ArrayStart /\ toks[j].value = ArrayEnd
    \/ j >= 2 /\ toks[j - 1].value.kind = "Name" /\ toks[j].value.kind = "Name"
    \/ /\ j >= 3
       /\ toks[j - 2].value.kind = "Value" /\ toks[j - 1].value = Comma /\ toks[j].value.kind = "Value"
       /\ toks[j - 2].value # toks[j].value

SamePlace(err, token) == err.line = token.line /\ err.col = token.col

-----------------------------------------------------------------------------
(* The quote in character mode *)

Structural == {"{", "}", "[", "]", ":", ","}
KindOf(char) ==
    CASE char = "{" -> "ObjectStart" [] char = "}" -> "ObjectEnd"
      [] char = "[" -> "ArrayStart" [] char = "]" -> "ArrayEnd"
      [] char = ":" -> "Colon" [] OTHER -> "Comma"

SetMax(S) == CHOOSE x \in S : \A y \in S : x >= y

(* the kind of the token emitted last when character q of the line is met, *)
(* the scan having started after character from with the tokens toks       *)
LastKindAt(line, from, q, toks) ==
    LET js == {j \in (from + 1)..(q - 1) : line[j] \in Structural} IN
    IF js # {} THEN KindOf(line[SetMax(js)])
    ELSE IF toks = <<>> THEN "none" ELSE toks[Len(toks)].value.kind

(* a turn of lex_character that scans the current line *)
Scanning == phase = "lex" /\ step = "LexCharacter" /\ lexer.char_iter # None

QuoteRule ==
    LET line == lexer.current_line_str[1]
        from == lexer.char_iter[1]
        upto == IF step' \in {"LexName", "LexString", "LexNumberType", "LexBoolean"}
                THEN lexer'.char_iter[1] ELSE Len(line)
        added == {j \in (from + 1)..upto : line[j] \in Structural}
    IN
    /\ step' = "LexName" =>
            line[upto] = "\"" /\ LastKindAt(line, from, upto, lexer.tokens) \in {"Comma", "ObjectStart"}
    /\ step' = "LexString" =>
            line[upto] = "\"" /\ LastKindAt(line, from, upto, lexer.tokens) = "Colon"
    /\ \A q \in (from + 1)..upto :
            line[q] = "\"" =>
                LET last == LastKindAt(line, from, q, lexer.tokens) IN
                /\ last \in {"Comma", "ObjectStart"} => q = upto /\ step' = "LexName"
                /\ last = "Colon" => q = upto /\ step' = "LexString"
    /\ Len(lexer'.tokens) = Len(lexer.tokens) + Cardinality(added)
    /\ SubSeq(lexer'.tokens, 1, Len(lexer.tokens)) = lexer.tokens
    /\ \A k \in (Len(lexer.tokens) + 1)..Len(lexer'.tokens) : lexer'.tokens[k].value.kind # "Name"
                                                            /\ lexer'.tokens[k].value.kind # "Value"

(* C20: a quote met in character mode starts Name-mode exactly when the    *)
(* token emitted last is Comma or ObjectStart and String-mode exactly when  *)
(* it is Colon; any other quote, also one met before any token, emits no    *)
(* token and the scan goes on.                                              *)
C20_QuoteModes == [][Scanning => QuoteRule]_vars

(* Name-mode entered after a Comma, on a line where a quote was passed over *)
C20_Witness ==
    /\ phase = "lex" /\ step = "LexName"
    /\ Last(lexer.tokens).value = Comma
    /\ \E q \in 1..(lexer.char_iter[1] - 1) :
            /\ lexer.current_line_str[1][q] = "\""
            /\ q > 1 /\ lexer.current_line_str[1][q - 1] \in {"[", "}", "2"}

-----------------------------------------------------------------------------
(* Number-mode and boolean-mode *)

TheLine == lexer.current_line_str[1]

(* the last character of the maximal run of characters of S that starts at  *)
(* character p of the line                                                  *)
RunEnd(line, p, S) ==
    SetMax({e \in p..Len(line) : \A j \in p..e : line[j] \in S})

(* the step appends exactly one token, of value v, and changes no other *)
AppendsOne(v) ==
    /\ Len(lexer'.tokens) = Len(lexer.tokens) + 1
    /\ SubSeq(lexer'.tokens, 1, Len(lexer.tokens)) = lexer.tokens
    /\ Last(lexer'.tokens).value = v

(* a turn of start_lex in number-mode: the digit that started it is the     *)
(* character of the line read last                                          *)
NumberMode == phase = "lex" /\ step = "LexNumberType"

NumberRule ==
    LET p == lexer.char_iter[1]
        e == RunEnd(TheLine, p, Digits \cup {"."})
    IN
    /\ AppendsOne(Value(IF \E j \in p..e : TheLine[j] = "." THEN "Float" ELSE "Int"))
    /\ lexer'.char_iter = Some(e)
    /\ step' = "LexCharacter"

(* C21: number-mode emits exactly one Value token for the maximal run of    *)
(* digits and "." that starts at the digit, of any length and wherever it   *)
(* stands on its line, Float when the run holds a "." and Int otherwise,    *)
(* and leaves the character after the run to character mode.                *)
C21_NumberMode == [][NumberMode => NumberRule]_vars

(* the same for the runs that do not end their line with their first digit *)
C21_NumberModeInsideLine ==
    [][(NumberMode /\ lexer.char_iter[1] < Len(TheLine)) => NumberRule]_vars

Modes == {"LexName", "LexString", "LexNumberType", "LexBoolean"}

(* a turn of lex_character over the current line passes over the           *)
(* characters after `from` and before ScanStop; when it ends in a mode the  *)
(* character that started the mode is character ScanStop - 1 of the line    *)
ScanStop == IF step' \in Modes THEN lexer'.char_iter[1] ELSE Len(TheLine) + 1

(* character mode passes over no character of S, and starts boolean-mode    *)
(* only at one                                                              *)
LetterRule(S) ==
    LET from == lexer.char_iter[1] IN
    /\ \A q \in (from + 1)..(ScanStop - 1) : TheLine[q] \notin S
    /\ step' = "LexBoolean" => TheLine[ScanStop] \in S
    /\ (from < Len(TheLine) /\ TheLine[from + 1] \in {",", "}"}) =>
            /\ Len(lexer'.tokens) > Len(lexer.tokens)
            /\ lexer'.tokens[Len(lexer.tokens) + 1].value.kind = KindOf(TheLine[from + 1])

BooleanMode == phase = "lex" /\ step = "LexBoolean"

BooleanRule ==
    LET p == lexer.char_iter[1]
        e == RunEnd(TheLine, p, {TheLine[j] : j \in 1..Len(TheLine)} \ {",", "}"})
    IN
    /\ AppendsOne(Value(IF TheLine[p] = "n" THEN "Null" ELSE "Bool"))
    /\ lexer'.char_iter = Some(e)
    /\ step' = "LexCharacter"

(* C22: a "t", "f" or "n" met in character mode starts boolean/null-mode;   *)
(* the mode consumes the characters before the next "," or "}" and emits    *)
(* exactly one Value token, Null for a literal that begins with "n" and     *)
(* Bool otherwise; the "," or "}" is then emitted as its own token.         *)
C22_BooleanMode ==
    [][(Scanning => LetterRule({"t", "f", "n"})) /\ (BooleanMode => BooleanRule)]_vars

(* the same for "t" and "f" alone, the literal not being a single letter   *)
(* that ends its line                                                       *)
C22_BooleanModeTrueFalse ==
    [][(Scanning => LetterRule({"t", "f"}))
        /\ ((BooleanMode /\ lexer.char_iter[1] < Len(TheLine)) => BooleanRule)]_vars

-----------------------------------------------------------------------------
(* Quoted texts *)

(* a quote that no backslash stands directly before *)
Unescaped(line, q) == line[q] = "\"" /\ (q = 1 \/ line[q - 1] # "\\")

(* a turn of start_lex in Name-mode or String-mode: the opening quote is    *)
(* the character of the line read last                                      *)
QuotedMode(modes) == phase = "lex" /\ step \in modes

(* the quoted text holds an escaped quote and is closed on its line: then   *)
(* the scan stops at the closing quote and one token covers the text        *)
EscapeRule ==
    LET p == lexer.char_iter[1]
        closing == {q \in (p + 1)..Len(TheLine) : Unescaped(TheLine, q)}
        q == SetMin(closing)
    IN
    (/\ closing # {}
     /\ \E j \in (p + 1)..(q - 1) : TheLine[j] = "\"" /\ ~Unescaped(TheLine, j))
    => /\ lexer'.char_iter \in {Some(q - 1), Some(q)}
       /\ AppendsOne(IF step = "LexName" THEN Name(SubSeq(TheLine, p + 1, q - 1))
                     ELSE Value("String"))

(* C23: in Name-mode and in String-mode a quote directly after a backslash  *)
(* does not end the scan: a quoted text with an escaped quote in it yields  *)
(* one token covering the text up to the next unescaped quote.              *)
C23_EscapedQuote == [][QuotedMode({"LexName", "LexString"}) => EscapeRule]_vars

(* the same for String-mode alone *)
C23_EscapedQuoteInString == [][QuotedMode({"LexString"}) => EscapeRule]_vars

-----------------------------------------------------------------------------
(* Positions of the tokens *)

CharOf(kind) ==
    CASE kind = "ObjectStart" -> "{" [] kind = "ObjectEnd" -> "}"
      [] kind = "ArrayStart" -> "[" [] kind = "ArrayEnd" -> "]"
      [] kind = "Colon" -> ":" [] OTHER -> ","

(* a token of value v begins at character c of the line: a quoted text at   *)
(* its opening quote or at the first character after it                     *)
BeginsAt(line, c, v) ==
    /\ c \in 1..Len(line)
    /\ CASE v.kind = "Name" -> line[c] = "\"" \/ (c > 1 /\ line[c - 1] = "\"")
         [] v.kind = "Value" /\ v.json_type = "String" ->
                line[c] = "\"" \/ (c > 1 /\ line[c - 1] = "\"")
         [] v.kind = "Value" /\ v.json_type \in {"Int", "Float"} ->
                line[c] \in Digits /\ (c = 1 \/ line[c - 1] \notin Digits \cup {"."})
         [] v.kind = "Value" -> line[c] \in {"t", "f", "n"}
         [] OTHER -> line[c] = CharOf(v.kind)

PositionsRight(kinds) ==
    \A k \in 1..Len(lexer.tokens) :
        LET t == lexer.tokens[k] IN
        t.value.kind \in kinds =>
            /\ t.line < Len(Lines(lexer.json))
            /\ BeginsAt(Lines(lexer.json)[t.line + 1], t.col + 1, t.value)

TokenKinds ==
    {"ObjectStart", "ObjectEnd", "ArrayStart", "ArrayEnd", "Colon", "Comma", "Name", "Value"}

(* C24: every token the lexer emits, of every kind, records the 0-based     *)
(* line and the 0-based column of the character the token begins with.      *)
C24_TokenPositions == PositionsRight(TokenKinds)

(* the same for the structural tokens alone *)
C24_StructuralPositions == PositionsRight(TokenKinds \ {"Name", "Value"})

(* the step leaves the tokens emitted so far as they are, at their places *)
Grows ==
    /\ Len(lexer'.tokens) >= Len(lexer.tokens)
    /\ SubSeq(lexer'.tokens, 1, Len(lexer.tokens)) = lexer.tokens

NotAfter(a, b) == a.line < b.line \/ (a.line = b.line /\ a.col <= b.col)
Ordered(toks) == \A k \in 1..(Len(toks) - 1) : NotAfter(toks[k], toks[k + 1])

(* C25: every step of lexing only appends to the token list, and the        *)
(* (line, column) positions of the tokens emitted never decrease along the  *)
(* list.                                                                    *)
C25_AppendOnlyOrdered == [][phase = "lex" => (Grows /\ Ordered(lexer'.tokens))]_vars

(* the first half alone *)
C25_AppendOnly == [][phase = "lex" => Grows]_vars

-----------------------------------------------------------------------------
(* Case conversion, what it returns *)

(* every upper-case letter lower-cased, with a "_" before it unless first *)
ToSnake(x) ==
    Flatten([i \in 1..Len(x) |->
                IF IsUpper(x[i]) THEN (IF i = 1 THEN <<ToLower(x[i])>> ELSE <<"_", ToLower(x[i])>>)
                ELSE <<x[i]>>])

UpperCount(x) == Cardinality({i \in 1..Len(x) : IsUpper(x[i])})

(* C26: a text without "_" and "-" converts to snake_case by lower-casing   *)
(* every upper-case letter and putting one "_" directly before each that    *)
(* is not at position 0, however many there are, all other characters       *)
(* staying in place.                                                        *)
C26_SnakeCase ==
    (Converted /\ TheCase = "SnakeCase" /\ NoneOf(TheName, {"_", "-"}))
        => convert_case(TheName, TheCase) = Fine(ToSnake(TheName))

(* the same for ASCII texts with at most one upper-case letter *)
C26_SnakeCaseOneUpper ==
    (Converted /\ TheCase = "SnakeCase" /\ NoneOf(TheName, {"_", "-"} \cup NonAscii)
        /\ UpperCount(TheName) <= 1)
        => convert_case(TheName, TheCase) = Fine(ToSnake(TheName))

IsSeparator(c) == c \in {"_", "-"}

(* every separator past position 0 removed and the character after it      *)
(* upper-cased; for UpperCamelCase the first character upper-cased too      *)
ToCamel(x, case_type) ==
    LET kept == Flatten([i \in 1..Len(x) |->
                    IF i > 1 /\ IsSeparator(x[i]) THEN <<>>
                    ELSE IF i > 2 /\ IsSeparator(x[i - 1]) THEN <<ToUpper(x[i])>>
                    ELSE <<x[i]>>])
    IN IF case_type = "UpperCamelCase" /\ kept # <<>>
       THEN <<ToUpper(kept[1])>> \o Tail(kept) ELSE kept

(* C27: converting to camelCase or UpperCamelCase removes every "_" and     *)
(* "-" that is not the first character and upper-cases the character that   *)
(* followed it, however many separators there are; a separator at position  *)
(* 0 stays; UpperCamelCase also upper-cases the first character.            *)
C27_CamelCase ==
    (Converted /\ TheCase \in {"CamelCase", "UpperCamelCase"})
        => convert_case(TheName, TheCase) = Fine(ToCamel(TheName, TheCase))

(* the same for the texts that convert_case does convert *)
C27_CamelCaseWhereDefined ==
    (Converted /\ TheCase \in {"CamelCase", "UpperCamelCase"}
        /\ ~convert_case(TheName, TheCase).panic)
        => convert_case(TheName, TheCase).val = ToCamel(TheName, TheCase)

-----------------------------------------------------------------------------
(* The pending field name *)

(* the stream is one that builds with one more token, TheExtra, put in      *)
(* after its first At tokens                                                *)
WithExtraToken == style = "extra" /\ Tokenized
At == doc.at
TheExtra == tokens[At + 1]

(* the bracket that is open after the first j tokens of a stream that       *)
(* builds: the kind of the last opening token not closed yet, "" if none    *)
RECURSIVE OpenAt(_, _, _)
OpenAt(toks, j, closed) ==
    IF j = 0 THEN ""
    ELSE IF toks[j].value.kind \in {"ObjectEnd", "ArrayEnd"} THEN OpenAt(toks, j - 1, closed + 1)
    ELSE IF toks[j].value.kind \in {"ObjectStart", "ArrayStart"}
         THEN (IF closed = 0 THEN toks[j].value.kind ELSE OpenAt(toks, j - 1, closed - 1))
    ELSE OpenAt(toks, j - 1, closed)

(* TheExtra is read by parse-object: as the first token of all, or inside   *)
(* an object that is open                                                   *)
InParseObject == At = 0 \/ OpenAt(tokens, At, 0) = "ObjectStart"

(* a field name is pending when TheExtra is read: the token before it is    *)
(* the name or the colon after it                                           *)
NamePending == At > 0 /\ tokens[At].value.kind \in {"Name", "Colon"}

RejectedAtExtra ==
    /\ ~Built.ok
    /\ Built.err = SyntaxError(TheExtra.line, TheExtra.col)
    /\ Built.pos = At + 1

(* C28: in parse-object a Name token arriving while a field name is         *)
(* pending, and a Colon, Value or ArrayStart token arriving while none is    *)
(* pending (none is after a value, a nested object or an array has been     *)
(* appended), make the build fail with SyntaxError at that token's line     *)
(* and column.                                                              *)
C28_PendingName ==
    WithExtraToken =>
        /\ (TheExtra.value.kind = "Name" /\ NamePending) => RejectedAtExtra
        /\ (TheExtra.value.kind \in {"Colon", "Value", "ArrayStart"}
                /\ InParseObject /\ ~NamePending) => RejectedAtExtra

(* a Colon right after a nested object was closed and appended *)
C28_Witness ==
    /\ WithExtraToken /\ TheExtra.value = Colon
    /\ At > 4 /\ tokens[At].value = ObjectEnd /\ OpenAt(tokens, At, 0) = "ObjectStart"
    /\ RejectedAtExtra

(* C29: an ObjectStart met in parse-object with no field name pending is a  *)
(* SyntaxError unless it is the first token of the whole stream, also when  *)
(* it is the first token read inside a nested object or inside an object    *)
(* that is an array element.                                                *)
C29_ObjectStartNeedsName ==
    (WithExtraToken /\ TheExtra.value = ObjectStart /\ At > 0
        /\ InParseObject /\ ~NamePending) => RejectedAtExtra

(* the same for an ObjectStart that is not the first token read after the  *)
(* ObjectStart of a nested object or of an array element                    *)
C29_ObjectStartNotFirstInside ==
    (WithExtraToken /\ TheExtra.value = ObjectStart /\ At > 0
        /\ InParseObject /\ ~NamePending
        /\ (At = 1 \/ tokens[At].value # ObjectStart)) => RejectedAtExtra

-----------------------------------------------------------------------------
(* Elements of an array that do not unify *)

(* a value that builds on its own as an array element: a scalar literal,   *)
(* an object of scalar fields, a non-empty array of literals of one kind    *)
WellFormed(v) ==
    CASE v.k = "lit" -> IsScalarLit(v)
      [] v.k = "obj" -> \A i \in 1..Len(v.fields) : IsScalarLit(v.fields[i].val)
      [] OTHER -> UniformScalarArray(v)

ShapeOf(v) ==
    CASE v.k = "lit" -> <<"scalar", v.type>>
      [] v.k = "obj" -> <<"object">>
      [] OTHER -> <<"array", v.elems[1].type>>

Unifiable(a, b) == ShapeOf(a) = ShapeOf(b) \/ (a.k = "obj" /\ b.k = "obj")

(* the number of tokens of the first n of vals, each with `more` tokens *)
RECURSIVE TokensOf(_, _, _)
TokensOf(vals, n, more) ==
    IF n = 0 THEN 0 ELSE TokensOf(vals, n - 1, more) + Len(Toks(vals[n])) + more

(* the place in the stream of the first token of element j of the array    *)
(* that is the value of field i of the document                             *)
ElementToken(i, j) ==
    1 + TokensOf([m \in 1..Len(doc.fields) |-> doc.fields[m].val], i - 1, 3) + 3
      + TokensOf(doc.fields[i].val.elems, j - 1, 1) + 1

(* field i is the first array of the document, after scalar fields, and     *)
(* its elements build each on its own                                       *)
ArrayOfWellFormed(i) ==
    /\ \A m \in 1..(i - 1) : IsScalarLit(doc.fields[m].val)
    /\ doc.fields[i].val.k = "arr"
    /\ \A j \in 1..Len(doc.fields[i].val.elems) : WellFormed(doc.fields[i].val.elems[j])

(* the elements of the array of field i that do not unify with those before *)
Clashing(i) ==
    LET elems == doc.fields[i].val.elems IN
    {j \in 2..Len(elems) : ~Unifiable(elems[1], elems[j])}

(* C30: when an element of an array has a shape that is neither equal to    *)
(* the shape unified so far nor an Object meeting an Object (a scalar and   *)
(* an object, two scalar kinds, an array and a non-array, two arrays of     *)
(* different shapes), the build fails with SyntaxError carrying the line    *)
(* and column of the token that begins that element: its Value token, its   *)
(* ObjectStart or its ArrayStart.                                           *)
C30_UnifyMismatch ==
    (Tokenized /\ TokensOfDoc)
        => \A i \in 1..Len(doc.fields) :
              (ArrayOfWellFormed(i) /\ Clashing(i) # {})
                  => LET first == tokens[ElementToken(i, SetMin(Clashing(i)))] IN
                     /\ ~Built.ok
                     /\ Built.err = SyntaxError(first.line, first.col)

(* a scalar, then an array: the error is at the ArrayStart, read before    *)
(* the tokens of the inner array                                            *)
C30_Witness ==
    /\ Tokenized /\ TokensOfDoc /\ ~Built.ok /\ Built.err.kind = "SyntaxError"
    /\ Len(doc.fields) = 2 /\ ArrayOfWellFormed(2) /\ Clashing(2) = {2}
    /\ tokens[ElementToken(2, 2)].value = ArrayStart
    /\ Built.err.col = tokens[ElementToken(2, 2)].col
    /\ Built.pos > ElementToken(2, 2)

-----------------------------------------------------------------------------
(* The rendered blocks *)

(* an Object child, or an Array child whose element shape is an Object: the *)
(* children rendered as a block of their own, <<>> for any other child      *)
RECURSIVE BlocksOf(_, _, _)
OwnBlock(cfg, child) ==
    IF child.kind = "JsonObject"
    THEN BlocksOf(cfg, child.children, convert_case(child.name, cfg.object_case_type).val)
    ELSE IF child.kind = "JsonArray" /\ child.array_type.kind = "JsonObject"
    THEN BlocksOf(cfg, child.array_type.children, convert_case(child.name, cfg.object_case_type).val)
    ELSE <<>>

(* the objects of a schema with their type names, in the order of C9 *)
BlocksOf(cfg, tree, name) ==
    Flatten([i \in 1..Len(tree) |-> OwnBlock(cfg, tree[i])]) \o <<[tree |-> tree, name |-> name]>>

TheBlocks == BlocksOf(config, Built.val, RootTypeName)

FieldName(cfg, child) == convert_case(child.name, cfg.case_type).val
TypeName(cfg, child) == convert_case(child.name, cfg.object_case_type).val
Renamed(cfg, child) == FieldName(cfg, child) # child.name

ArrayOf(cfg, text) == replace(cfg.array_definition, "{field_type}", text)

(* the type a field line names *)
FieldType(cfg, child) ==
    CASE child.kind \in ScalarKinds -> PrimitiveType(cfg, child.kind)
      [] child.kind = "JsonObject" -> TypeName(cfg, child)
      [] child.array_type.kind = "JsonObject" -> ArrayOf(cfg, TypeName(cfg, child))
      [] OTHER -> ArrayOf(cfg, FieldName(cfg, child))

FieldLine(cfg, child) ==
    replace(replace(cfg.field_definition, "{field_name}", FieldName(cfg, child)),
            "{field_type}", FieldType(cfg, child))

Annotation(cfg, child) == replace(cfg.name_change_annotation, "{name}", child.name)

(* the place in its block of the field line of child k, when an annotation  *)
(* line stands before the lines of the renamed fields and of no other       *)
RECURSIVE FieldLineAt(_, _, _)
FieldLineAt(cfg, tree, k) ==
    IF k = 0 THEN 1
    ELSE FieldLineAt(cfg, tree, k - 1) + (IF Renamed(cfg, tree[k]) THEN 2 ELSE 1)

(* the lines a block has after its field lines *)
LinesAfterFields(cfg, tree) ==
    IF cfg.constructor = None THEN 1
    ELSE IF cfg.constructor[1].field_definition = None THEN 2
    ELSE 2 + Len(tree) + 1

(* C31: in every rendered block the annotation line of a field, with the    *)
(* original name in it, is emitted if and only if the case-converted name   *)
(* differs from the original, and then stands directly before the field's   *)
(* field_definition line.                                                   *)
C31_AnnotationIffRenamed ==
    Rendered =>
        /\ Len(output[1]) = Len(TheBlocks)
        /\ \A b \in 1..Len(TheBlocks) :
              LET block == output[1][b]
                  tree == TheBlocks[b].tree
              IN
              /\ Len(block) = FieldLineAt(config, tree, Len(tree)) + LinesAfterFields(config, tree)
              /\ \A k \in 1..Len(tree) :
                    LET at == FieldLineAt(config, tree, k) IN
                    /\ block[at] = FieldLine(config, tree[k])
                    /\ block[at - 1] =
                          (IF Renamed(config, tree[k]) THEN Annotation(config, tree[k])
                           ELSE IF k = 1 THEN TypeLine(config, TheBlocks[b].name)
                           ELSE FieldLine(config, tree[k - 1]))

(* a nested block with a renamed field before one that keeps its name *)
C31_Witness ==
    /\ phase = "done" /\ Len(output[1]) >= 2
    /\ Len(TheBlocks[1].tree) = 2
    /\ Renamed(config, TheBlocks[1].tree[1]) /\ ~Renamed(config, TheBlocks[1].tree[2])
    /\ output[1][1][2] = Annotation(config, TheBlocks[1].tree[1])
    /\ Len(output[1][1]) = 5

(* the argument of a field, and the text put in place of {arguments} *)
Argument(cfg, child) ==
    replace(replace(cfg.constructor[1].argument_definition, "{type}", FieldType(cfg, child)),
            "{name}", FieldName(cfg, child))

ArgumentsText(cfg, tree) ==
    Flatten([i \in 1..Len(tree) |->
                Argument(cfg, tree[i])
                \o (IF i < Len(tree) \/ cfg.constructor[1].separator_at_end
                    THEN cfg.constructor[1].separator ELSE <<>>)])

ConstructorLine(cfg, tree, name) ==
    replace(replace(cfg.constructor[1].definition, "{object_name}", name),
            "{arguments}", ArgumentsText(cfg, tree))

(* C32: with a constructor configured, the {arguments} text of a block's    *)
(* constructor line is the argument of each field in field order, the       *)
(* separator after every argument but the last when separator_at_end is     *)
(* false and after every argument when it is true; for an object without    *)
(* fields the text is empty, and rendering does not abort.                  *)
C32_ConstructorArguments ==
    /\ (config.constructor # None /\ output # None) => phase # "panic"
    /\ (Rendered /\ config.constructor # None) =>
          /\ Len(output[1]) = Len(TheBlocks)
          /\ \A b \in 1..Len(TheBlocks) :
                LET tree == TheBlocks[b].tree IN
                /\ output[1][b][FieldLineAt(config, tree, Len(tree)) + 1]
                      = ConstructorLine(config, tree, TheBlocks[b].name)
                /\ tree = <<>> => ArgumentsText(config, tree) = <<>>

(* separator_at_end set: a block of an object without fields and a block   *)
(* with two fields or more                                                  *)
C32_Witness ==
    /\ phase = "done" /\ config = DART_DEFINITION
    /\ \E b \in 1..Len(TheBlocks) : TheBlocks[b].tree = <<>> /\ Len(output[1][b]) = 3
    /\ \E b \in 1..Len(TheBlocks) : Len(TheBlocks[b].tree) >= 2

(* the children of a block that are arrays *)
ArrayChildren(tree) == {k \in 1..Len(tree) : tree[k].kind = "JsonArray"}

(* the name an array's field type is built from *)
ElementName(cfg, child) ==
    IF child.array_type.kind = "JsonObject"
    THEN convert_case(child.name, cfg.object_case_type).val
    ELSE convert_case(child.name, cfg.case_type).val

RenderedBefore(b, name) == \E e \in 1..(b - 1) : output[1][e][1] = TypeLine(config, name)

(* C33: the field type of an Array child is array_definition with           *)
(* {field_type} replaced by the field name converted with object_case_type  *)
(* when the element shape is an Object, that object's block being rendered  *)
(* before, and by the field name converted with case_type for any other     *)
(* element shape.                                                           *)
C33_ArrayFieldType ==
    Rendered =>
        /\ Len(output[1]) = Len(TheBlocks)
        /\ \A b \in 1..Len(TheBlocks) :
              LET tree == TheBlocks[b].tree IN
              \A k \in ArrayChildren(tree) :
                  /\ output[1][b][FieldLineAt(config, tree, k)]
                        = replace(replace(config.field_definition, "{field_name}", FieldName(config, tree[k])),
                                  "{field_type}",
                                  replace(config.array_definition, "{field_type}", ElementName(config, tree[k])))
                  /\ tree[k].array_type.kind = "JsonObject" => RenderedBefore(b, ElementName(config, tree[k]))

(* a block with an array of objects, an array of scalars and a type name    *)
(* that differs from the field name                                         *)
C33_Witness ==
    /\ phase = "done"
    /\ \E b \in 1..Len(TheBlocks) :
          LET tree == TheBlocks[b].tree IN
          /\ \E k \in ArrayChildren(tree) :
                /\ tree[k].array_type.kind = "JsonObject"
                /\ TypeName(config, tree[k]) # FieldName(config, tree[k])
          /\ \E k \in ArrayChildren(tree) : tree[k].array_type.kind \in ScalarKinds

(* the children of a block that refer to a generated type *)
IsReference(child) ==
    \/ child.kind = "JsonObject"
    \/ child.kind = "JsonArray" /\ child.array_type.kind = "JsonObject"

References(tree) == {k \in 1..Len(tree) : IsReference(tree[k])}

(* the type a field line must name for the text `used` to be its type *)
NamesType(line, cfg, child, used) ==
    line = replace(replace(cfg.field_definition, "{field_name}", FieldName(cfg, child)),
                   "{field_type}",
                   IF child.kind = "JsonObject" THEN used ELSE ArrayOf(cfg, used))

(* the names the blocks before block b define *)
DefinedBefore(b) == {name \in {TheBlocks[e].name : e \in 1..(b - 1)} :
                        \E e \in 1..(b - 1) : output[1][e][1] = TypeLine(config, name)}

(* C34: for every Object child and every Array child with Object element    *)
(* shape, the type name used in the field line of the containing block, the *)
(* field name converted with object_case_type, is the {object_name} of the  *)
(* type_definition line of a block earlier in the output list.              *)
C34_ReferencesResolve ==
    Rendered =>
        /\ Len(output[1]) = Len(TheBlocks)
        /\ \A b \in 1..Len(TheBlocks) :
              LET tree == TheBlocks[b].tree IN
              \A k \in References(tree) :
                  /\ NamesType(output[1][b][FieldLineAt(config, tree, k)], config, tree[k],
                               TypeName(config, tree[k]))
                  /\ TypeName(config, tree[k]) \in DefinedBefore(b)

(* an object two levels down: a block that is referred to and refers itself *)
C34_Witness ==
    /\ phase = "done" /\ Len(TheBlocks) >= 3
    /\ \E b \in 2..(Len(TheBlocks) - 1) :
          LET tree == TheBlocks[b].tree IN
          /\ \E k \in References(tree) :
                tree[k].kind = "JsonObject" /\ TypeName(config, tree[k]) # FieldName(config, tree[k])
          /\ \E k \in References(TheBlocks[Len(TheBlocks)].tree) :
                TypeName(config, TheBlocks[Len(TheBlocks)].tree[k]) = TheBlocks[b].name

(* the placeholders Transformer::new looks for, each with its template *)
Required(cfg) ==
    {<<cfg.type_definition, "{object_name}">>,
     <<cfg.field_definition, "{field_name}">>,
     <<cfg.field_definition, "{field_type}">>,
     <<cfg.name_change_annotation, "{name}">>,
     <<cfg.array_definition, "{field_type}">>}
    \cup (IF cfg.constructor = None THEN {}
          ELSE {<<cfg.constructor[1].definition, "{object_name}">>,
                <<cfg.constructor[1].definition, "{arguments}">>,
                <<cfg.constructor[1].argument_definition, "{name}">>}
               \cup (IF cfg.constructor[1].field_definition = None THEN {}
                     ELSE {<<cfg.constructor[1].field_definition[1].field_definition, "{name}">>}))

(* C35: Transformer::new succeeds for each of the four built-in presets:    *)
(* every placeholder validation requires is present in each of them, the    *)
(* constructor templates of the Java and Dart presets included.             *)
C35_PresetsValid ==
    (Validated /\ config \in Presets) =>
        /\ transformer[1].ok
        /\ transformer[1].val.config = config
        /\ \A pair \in Required(config) : ~Lacks(pair[1], pair[2])

(* the Dart preset, its constructor without field assignments, accepted *)
C35_Witness ==
    /\ Validated /\ transformer[1].ok
    /\ config = DART_DEFINITION
    /\ Cardinality(Required(config)) = 8

(* the root, the Object nodes, and the Array nodes whose element shape is   *)
(* directly an Object, counted through the children of those objects        *)
RECURSIVE CountBlocks(_)
RECURSIVE CountChildren(_, _)
CountChildren(tree, k) ==
    IF k > Len(tree) THEN 0
    ELSE (IF tree[k].kind = "JsonObject" THEN CountBlocks(tree[k].children)
          ELSE IF tree[k].kind = "JsonArray" /\ tree[k].array_type.kind = "JsonObject"
          THEN CountBlocks(tree[k].array_type.children)
          ELSE 0)
         + CountChildren(tree, k + 1)

CountBlocks(tree) == 1 + CountChildren(tree, 1)

(* an array child whose elements are arrays of objects *)
ArrayOfObjectArrays(child) ==
    /\ child.kind = "JsonArray"
    /\ child.array_type.kind = "JsonArray"
    /\ child.array_type.inner.kind = "JsonObject"

(* C36: start_transform returns one block for the root, one for every       *)
(* Object node and one for every Array node whose element shape is directly *)
(* an Object, counted recursively through the children of those objects; an *)
(* Array whose element shape is an array of objects contributes no block.   *)
C36_BlockCount ==
    Rendered =>
        /\ Len(output[1]) = CountBlocks(Built.val)
        /\ \A k \in 1..Len(Built.val) :
              ArrayOfObjectArrays(Built.val[k]) =>
                  \A b \in 1..Len(output[1]) :
                      output[1][b][1] # TypeLine(config, TypeName(config, Built.val[k]))

(* the objects of an array of arrays left without a block *)
C36_Witness ==
    /\ phase = "done"
    /\ \E k \in 1..Len(Built.val) : ArrayOfObjectArrays(Built.val[k])
    /\ Len(output[1]) = 1

------------------------------------------------------------------------------
(* Streams that end early, and streams that go on *)

(* the brackets open after the first j tokens, the innermost last *)
RECURSIVE OpenStack(_, _)
OpenStack(toks, j) ==
    IF j = 0 THEN <<>>
    ELSE LET before == OpenStack(toks, j - 1)
             kind == toks[j].value.kind
         IN IF kind \in {"ObjectStart", "ArrayStart"} THEN Append(before, kind)
            ELSE IF kind \in {"ObjectEnd", "ArrayEnd"} /\ before # <<>>
            THEN SubSeq(before, 1, Len(before) - 1)
            ELSE before

(* the tokens that close the open brackets, the innermost first *)
Closers(open) ==
    [j \in 1..Len(open) |->
        Token(IF open[Len(open) + 1 - j] = "ObjectStart" THEN ObjectEnd ELSE ArrayEnd, 2, j - 1)]

Closed(toks) == toks \o Closers(OpenStack(toks, Len(toks)))

CutRun == style = "cut" /\ Tokenized
StillOpen == OpenStack(tokens, Len(tokens))
(* the stream ends in an array no element of which was read *)
EndsInBareArray == tokens # <<>> /\ tokens[Len(tokens)].value.kind = "ArrayStart"

(* the place in the stream of the first token of the value of root field i *)
RECURSIVE ValueAt(_, _)
ValueAt(fields, i) ==
    IF i = 1 THEN 4
    ELSE ValueAt(fields, i - 1) + Len(Toks(fields[i - 1].val)) + 3

(* the root fields whose value the stream reaches *)
Begun == {i \in 1..Len(doc.fields) : ValueAt(doc.fields, i) <= Len(tokens)}

(* C37: a token stream that ends inside an object before its ObjectEnd is   *)
(* accepted, parse-object returning the fields accumulated so far at every  *)
(* nesting depth; one that ends inside an array gives the Array node when   *)
(* an element was unified and UnknownSyntaxError when none was.             *)
C37_TruncatedAccepted ==
    CutRun =>
        IF EndsInBareArray
        THEN ~Built.ok /\ Built.err = UnknownSyntaxError
        ELSE /\ Built.ok
             /\ Built.pos = Len(tokens)
             /\ Built.val = start_tokenizer(Closed(tokens)).val
             /\ [k \in 1..Len(Built.val) |-> Built.val[k].name]
                   = [k \in 1..Cardinality(Begun) |-> doc.fields[k].name]

(* the stream ends in an object inside an object, a field of it read *)
C37_Witness ==
    /\ CutRun /\ Built.ok
    /\ Len(StillOpen) = 2 /\ StillOpen[2] = "ObjectStart"
    /\ Len(Built.val) = 1 /\ Built.val[1].kind = "JsonObject"
    /\ Len(Built.val[1].children) >= 1

TrailRun == style = "trail" /\ Tokenized
(* the stream of the document alone, its last token the root's ObjectEnd *)
Untrailed == TokenStream(Obj(doc.fields))

(* C38: the schema builder stops reading at the ObjectEnd that closes the   *)
(* root object: the tokens after it are neither consumed nor validated, and *)
(* the stream yields the schema of the stream without them.                 *)
C38_TrailingIgnored ==
    TrailRun =>
        /\ Built.ok
        /\ Built.pos = Len(Untrailed)
        /\ tokens[Built.pos].value = ObjectEnd
        /\ Built.val = start_tokenizer(Untrailed).val
        /\ [k \in 1..Len(Built.val) |-> Built.val[k].name]
              = [k \in 1..Len(doc.fields) |-> doc.fields[k].name]

(* two tokens after the root's brace that no object may hold in that order *)
C38_Witness ==
    /\ TrailRun /\ Built.ok
    /\ doc.trail = <<Value("Null"), ArrayStart>>
    /\ Len(tokens) = Built.pos + 2
    /\ Len(Built.val) = 2

------------------------------------------------------------------------------
(* Arrays of arrays of objects *)

DeepRun == style \in {"tokens", "compact"} /\ doc \in DeepArrDocs /\ Tokenized /\ TokensOfDoc

(* the array of arrays is the last field of the document *)
Outer == doc.fields[Len(doc.fields)].val

(* the field set of the objects of an inner array *)
FieldSet(inner) ==
    UNION {{inner.elems[j].fields[m].name : m \in 1..Len(inner.elems[j].fields)} :
              j \in 1..Len(inner.elems)}

SecondStart == tokens[ElementToken(Len(doc.fields), 2)]

(* C39: the union of field sets goes one level deep only: an array of       *)
(* arrays whose inner arrays hold objects with different field sets is not  *)
(* merged, and the build fails with SyntaxError at the position of the      *)
(* ArrayStart token of the second inner array.                              *)
C39_UnionOneLevel ==
    DeepRun =>
        IF FieldSet(Outer.elems[1]) # FieldSet(Outer.elems[2])
        THEN /\ SecondStart.value = ArrayStart
             /\ ~Built.ok
             /\ Built.err = SyntaxError(SecondStart.line, SecondStart.col)
        ELSE Built.ok

(* the second inner array holds a field the first has not, after an inner   *)
(* array whose own objects were merged                                      *)
C39_Witness ==
    /\ DeepRun /\ ~Built.ok
    /\ Len(Outer.elems[1].elems) = 2
    /\ FieldSet(Outer.elems[1]) = {<<"a">>, <<"b">>}
    /\ FieldSet(Outer.elems[2]) = {<<"b">>}
    /\ Built.err.kind = "SyntaxError"
====
